---- MODULE Spec2Model ----
(***************************************************************************)
(* SmartLife Bot.  Two applications live in the repository:                *)
(*   Application A  (python-telegram-bot): DatabaseManager, TaskHandler,   *)
(*                  CalendarHandler / CalendarService;                     *)
(*   Application B  (aiogram, src/main.py): text / voice handlers, the     *)
(*                  flat idea store, the Google Calendar adapter and the   *)
(*                  reminder poller.                                       *)
(* The model reads a handler at the level of its control flow.  Field      *)
(* spellings that differ between modules (task['status'] / task.status,    *)
(* User.telegram_id / User.user_id) denote the same column.  Local SQLite  *)
(* writes succeed, except under SpecFault where a storage operation may    *)
(* fail at the query, at the commit or after it; failures of the AI and    *)
(* calendar services and of the poller's send are inputs of the actions    *)
(* that call them.  The column users.premium and the attribute             *)
(* premium_status that the task, mood and premium handlers read are two    *)
(* separate flags: no code copies one into the other.                      *)
(***************************************************************************)
EXTENDS Integers, Sequences, FiniteSets, TLC

(* ------------------------------ bounds -------------------------------- *)
MaxTasks == 2
MaxClock == 1
MaxNotes == 2
MaxIdeas == 1
MaxUpcoming == 3

(* -------------------------- program constants ------------------------- *)
TitleMaxLen == 200
TitleMinLen == 3
FreeTierDailyTasks == 20
TaskListLimit == 50
HoursPerDay == 24
SentLimit == 100
DueMinutes == 5

Users == {1, 2}
NoDeadline == 0 - 1
NoTime == 0 - 1
NoEvent == 0
NoTask == 0
NoNote == 0
NoTokens == "None"

\* ids of calendar events: those already past and those still to come
EventIds == 1..(SentLimit + MaxUpcoming)
UpcomingIds == (SentLimit + 1)..(SentLimit + MaxUpcoming)

(* conversation states of the task conversation; END is ConversationHandler.END *)
END == "END"
WAITING_TASK_TITLE == "WAITING_TASK_TITLE"
WAITING_TASK_CATEGORY == "WAITING_TASK_CATEGORY"
WAITING_TASK_DEADLINE == "WAITING_TASK_DEADLINE"
WAITING_TASK_PRIORITY == "WAITING_TASK_PRIORITY"
WaitingStates == {WAITING_TASK_TITLE, WAITING_TASK_CATEGORY, WAITING_TASK_DEADLINE, WAITING_TASK_PRIORITY}

VARIABLES
  tasks,          \* Application A: table tasks, id -> row
  nextTaskId,     \* Application A: next auto-increment task id
  reminders,      \* Application A: table reminders, id -> row
  now,            \* wall clock in hours, read by datetime.utcnow() / datetime.now()
  premium,        \* Application A: users.premium
  premium_status, \* Application A: the attribute premium_status of the users' rows
  mood_conv,      \* state of the mood conversation, per user
  mood_logs,      \* Application A: the rows of table mood_logs, per user, oldest first
  ai_calls,       \* requests made to the AI suggestion and brainstorm services
  cal_conv,       \* state of the calendar conversation, per user
  brain_conv,     \* state of the brainstorm conversation, per user
  users,          \* Application A: table users, the rows in insertion order (premium apart)
  get_or_create_pc, \* get_or_create_user: what each call in progress has read
  slots_in,       \* find_free_slots: the calendar and the arguments of the call
  slots_out,      \* find_free_slots: the slots returned
  request,        \* the call of a service made last: the operation and its arguments
  response,       \* what that call returned
  conv,           \* state of the task conversation, per user
  user_data,      \* context.user_data, per user (key -> value)
  delete_prompts, \* (user, task id) of every "Yes, Delete" button shown
  complete_pc,    \* /complete handlers under way: what each will answer once its reply is sent
  notes,          \* Application A: table notes, id -> row
  nextNoteId,     \* Application A: next note id
  calendar_tokens,    \* Application A: users.calendar_tokens
  calendar_connected, \* Application A: users.calendar_connected
  events,         \* Application A: events of the users' Google calendars
  nextEventId,    \* the id the calendar provider gives the next event
  ideas,          \* Application B: rows of table ideas in ideas.db, oldest first
  gcal,           \* Application B: events inserted into the primary calendar, oldest first
  files,          \* Application B: downloaded voice files present on disk
  b_last,         \* Application B: the message handled last and what its handler did
  idea_listing,   \* Application B: the latest answer to /ideas: its lines and its buttons
  list_buttons,   \* Application B: the delete buttons of the latest answer to /list
  sent_reminders, \* Application B: the global set sent_reminders
  poll_pc,        \* reminder poller: position in check_calendar_reminders
  poll_events,    \* reminder poller: fetched events not yet looked at
  notified,       \* event id -> reminders delivered since sent_reminders was last cleared
  overlap,        \* reminder poller: a second cycle that is suspended at its await, if any
  poll_log,       \* reminder poller: what its latest step did
  lastUpdate,     \* the chat update handled last
  reply           \* what the last handler reported

storeVars == <<tasks, nextTaskId, reminders>>
noteVars == <<notes, nextNoteId>>
calVars == <<calendar_tokens, calendar_connected, events, nextEventId>>
convVars == <<conv, user_data>>
histVars == <<lastUpdate, reply>>
premiumVars == <<premium, premium_status, mood_conv, mood_logs, ai_calls>>
usersVars == <<users, get_or_create_pc>>
callVars == <<request, response>>
slotVars == <<slots_in, slots_out, callVars>>
userVars == <<premiumVars, cal_conv, brain_conv, usersVars, slotVars>>
appAVars == <<storeVars, noteVars, calVars, convVars, histVars, now, userVars, delete_prompts, complete_pc>>
msgVars == <<ideas, gcal, files, b_last>>
pollVars == <<sent_reminders, poll_pc, poll_events, notified, poll_log, overlap>>
listVars == <<idea_listing, list_buttons>>
appBVars == <<msgVars, pollVars, listVars>>

vars == <<appAVars, appBVars>>

(* ------------------------------ helpers ------------------------------- *)
EmptyDict == [k \in {} |-> 0]
DictSet(d, k, v) == [x \in (DOMAIN d) \cup {k} |-> IF x = k THEN v ELSE d[x]]
DictHas(d, k) == k \in DOMAIN d

\* a chat update: a command with its argument, a text message or a callback query
Command(u, name, argKind, arg) ==
  [user |-> u, kind |-> "command", data |-> name, text |-> <<>>, argKind |-> argKind, arg |-> arg]
TextMessage(u, txt) ==
  [user |-> u, kind |-> "text", data |-> "", text |-> txt, argKind |-> "none", arg |-> 0]
CallbackQuery(u, prefix, rest, n) ==
  [user |-> u, kind |-> "callback", data |-> prefix, text |-> <<>>, argKind |-> rest, arg |-> n]
NoUpdate == [user |-> 0, kind |-> "none", data |-> "", text |-> <<>>, argKind |-> "none", arg |-> 0]

Report(u, k, t) == [user |-> u, kind |-> k, task |-> t]
NoReply == Report(0, "none", 0)

\* context.args of a command: absent, not a number, or a number
CommandArgs == {[kind |-> "none", id |-> 0], [kind |-> "bad", id |-> 0]}
                 \cup {[kind |-> "num", id |-> i] : i \in 1..(MaxTasks + 1)}

(* ---------------------- Database Manager: tasks ----------------------- *)
\* a Task row as add_task creates it: the column defaults of models.Task
NewTask(user_id, title, category, deadline) ==
  [user_id |-> user_id, title |-> title, category |-> category, priority |-> 0,
   deadline |-> deadline, status |-> "pending", created_at |-> now,
   completed_at |-> NoTime, calendar_event_id |-> NoEvent]

\* session.query(Task).filter_by(id=task_id, user_id=user_id).first()
get_task(task_id, user_id) ==
  IF task_id \in DOMAIN tasks /\ tasks[task_id].user_id = user_id THEN task_id ELSE NoTask

add_task(user_id, title, category, deadline) ==
  [i \in (DOMAIN tasks) \cup {nextTaskId} |->
     IF i = nextTaskId THEN NewTask(user_id, title, category, deadline) ELSE tasks[i]]

complete_task_row_keeps_timestamp(row) == [row EXCEPT !.status = "completed"]

\* the two assignments of DatabaseManager.complete_task
complete_task_row(row) == [row EXCEPT !.status = "completed", !.completed_at = now]

\* DatabaseManager.complete_task: the store after the call (the same when no row matches)
db_complete_task(task_id, user_id) ==
  IF get_task(task_id, user_id) # NoTask
    THEN [tasks EXCEPT ![task_id] = complete_task_row(@)]
    ELSE tasks

\* DatabaseManager.delete_task: the store after the call
db_delete_task(task_id, user_id) ==
  IF get_task(task_id, user_id) # NoTask
    THEN [i \in (DOMAIN tasks) \ {task_id} |-> tasks[i]]
    ELSE tasks

\* session.delete(task) in delete_task: the relationship Task.reminders is
\* declared cascade="all, delete-orphan", the reminders of the task go with it
delete_task_cascade(task_id, user_id) ==
  IF get_task(task_id, user_id) # NoTask
    THEN [i \in {r \in DOMAIN reminders : reminders[r].task_id # task_id} |-> reminders[i]]
    ELSE reminders

\* DatabaseManager.update_task_calendar_event: the row is looked up by Task.id alone
update_task_calendar_event(task_id, event_id) ==
  IF task_id \in DOMAIN tasks
    THEN [tasks EXCEPT ![task_id].calendar_event_id = event_id]
    ELSE tasks

RECURSIVE NewestFirst(_)
\* order_by(Task.created_at.desc()): ids grow with the creation time
NewestFirst(ids) ==
  IF ids = {} THEN <<>>
  ELSE LET newest == CHOOSE x \in ids : \A y \in ids : y <= x
       IN <<newest>> \o NewestFirst(ids \ {newest})

FirstRows(list, limit) == SubSeq(list, 1, IF Len(list) < limit THEN Len(list) ELSE limit)

\* the ids of the rows get_user_tasks(user_id, status, limit) returns
get_user_tasks(user_id, status, limit) ==
  FirstRows(NewestFirst({id \in DOMAIN tasks :
                          tasks[id].user_id = user_id /\ tasks[id].status = status}), limit)

(* ---------------------- Database Manager: notes ----------------------- *)
\* session.query(Note).filter_by(id=note_id, user_id=user_id).first()
get_note(note_id, user_id) ==
  IF note_id \in DOMAIN notes /\ notes[note_id].user_id = user_id THEN note_id ELSE NoNote

\* a column that holds no value, and the argument tags=None
NULL == <<"NULL">>
None == <<NULL>>

RECURSIVE join(_, _)
\* sep.join(list)
join(list, sep) ==
  IF list = <<>> THEN <<>>
  ELSE IF Len(list) = 1 THEN list[1]
  ELSE list[1] \o <<sep>> \o join(Tail(list), sep)

RECURSIVE split(_, _)
\* txt.split(sep): one field more than there are separators
split(txt, sep) ==
  IF \A i \in DOMAIN txt : txt[i] # sep THEN <<txt>>
  ELSE LET at == CHOOSE i \in DOMAIN txt : txt[i] = sep /\ \A j \in 1..(i - 1) : txt[j] # sep
       IN <<SubSeq(txt, 1, at - 1)>> \o split(SubSeq(txt, at + 1, Len(txt)), sep)

\* the column tags when only the first tag is stored
tags_column_first_only(tags) == IF tags # <<>> /\ tags # None THEN tags[1] ELSE NULL

\* ','.join(tags) if tags else None
tags_column(tags) == IF tags # <<>> /\ tags # None THEN join(tags, ",") ELSE NULL

\* note.tags.split(',') if note.tags else []
tags_list(column) == IF column # NULL /\ column # <<>> THEN split(column, ",") ELSE <<>>

create_note(user_id, title, content, category, tags) ==
  [i \in (DOMAIN notes) \cup {nextNoteId} |->
     IF i = nextNoteId
       THEN [user_id |-> user_id, title |-> title, content |-> content,
             category |-> category, tags |-> tags_column(tags),
             created_at |-> now, updated_at |-> now]
       ELSE notes[i]]

\* DatabaseManager.update_note with updates = {content: ...}
update_note(note_id, user_id, content) ==
  IF get_note(note_id, user_id) # NoNote
    THEN [notes EXCEPT ![note_id] = [@ EXCEPT !.content = content, !.updated_at = now]]
    ELSE notes

delete_note(note_id, user_id) ==
  IF get_note(note_id, user_id) # NoNote
    THEN [i \in (DOMAIN notes) \ {note_id} |-> notes[i]]
    ELSE notes

(* ------------------------------ Init ---------------------------------- *)
\* the user whose premium flag is set
PremiumUser == 2

InitTasks ==
  /\ tasks = EmptyDict
  /\ nextTaskId = 1
  /\ reminders = EmptyDict

InitCalendar ==
  /\ calendar_tokens = [u \in Users |-> NoTokens]
  /\ calendar_connected = [u \in Users |-> FALSE]
  /\ events = {}
  /\ nextEventId = 1

\* the calls of get_or_create_user that may be in progress at once
Callers == {1, 2}
Idle == [user |-> 0, found |-> FALSE]

\* a row of table users as get_or_create_user inserts it
NewUser(user_id) == [user_id |-> user_id, created_at |-> now, last_active |-> now]

UserRows(user_id) == {i \in DOMAIN users : users[i].user_id = user_id}

\* no service has been called yet
NoCall == [op |-> "none", user |-> 0]

NoQuery == [user |-> 0, calendar |-> {}, duration_hours |-> 0, days_ahead |-> 0]

InitUsersWith(rows, flags) ==
  /\ users = rows
  /\ premium = flags
  /\ get_or_create_pc = [c \in Callers |-> Idle]

\* nothing has been asked of the bot yet
\* no notes yet
InitNotes ==
  /\ notes = EmptyDict
  /\ nextNoteId = 1

\* handler coroutines of /complete that the dispatcher may have under way at a time
Handlers == {1, 2}
NoHandler == [pc |-> "idle", user |-> 0, id |-> 0, kind |-> "none"]

\* no conversation is under way and no service has been called
InitConversations ==
  /\ mood_conv = [u \in Users |-> END]
  /\ mood_logs = [u \in Users |-> <<>>]
  /\ ai_calls = 0
  /\ cal_conv = [u \in Users |-> END]
  /\ brain_conv = [u \in Users |-> END]
  /\ request = NoCall
  /\ response = <<>>
  /\ conv = [u \in Users |-> END]
  /\ user_data = [u \in Users |-> EmptyDict]
  /\ delete_prompts = {}
  /\ complete_pc = [h \in Handlers |-> NoHandler]
  /\ lastUpdate = NoUpdate
  /\ reply = NoReply

InitSessions ==
  /\ premium_status = [u \in Users |-> FALSE]
  /\ InitConversations

NoSlotQuery ==
  /\ slots_in = NoQuery
  /\ slots_out = <<>>

\* both users have contacted the bot
InitKnownUsers ==
  /\ now = 0
  /\ InitUsersWith(<<NewUser(1), NewUser(2)>>, [u \in Users |-> u = PremiumUser])
  /\ InitSessions

InitChat == InitKnownUsers /\ NoSlotQuery /\ InitNotes

\* Application A at start: the users are known, no tasks and no notes
InitA == InitTasks /\ InitCalendar /\ InitChat

NoListing == [lines |-> <<>>, buttons |-> {}]
NoMessage ==
  [handler |-> "none", text |-> "", answers |-> <<>>, reply |-> "none", returned |-> FALSE, fault |-> FALSE]

InitMsg ==
  /\ ideas = <<>>
  /\ gcal = <<>>
  /\ files = {}
  /\ b_last = NoMessage
  /\ idea_listing = NoListing
  /\ list_buttons = <<>>

\* the poller between two cycles, after it has reminded of the events 1..sent
InitPollAfter(sent) ==
  /\ sent_reminders = 1..sent
  /\ poll_pc = "idle"
  /\ poll_events = <<>>
  /\ notified = [id \in EventIds |-> IF id <= sent THEN 1 ELSE 0]
  /\ poll_log = [kind |-> "none", id |-> 0]
  /\ overlap = [pc |-> "idle", events |-> <<>>]

\* Application B at start: init_db() and sent_reminders = set()
InitB == InitMsg /\ InitPollAfter(0)

Init == InitA /\ InitB

(* ------------------------- environment steps -------------------------- *)
\* time passes (lastUpdate and reply describe the latest step only)
Tick ==
  /\ now < MaxClock
  /\ now' = now + 1
  /\ lastUpdate' = NoUpdate
  /\ reply' = NoReply
  /\ UNCHANGED appBVars /\ UNCHANGED <<storeVars, noteVars, calVars, convVars, userVars, delete_prompts, complete_pc>>

\* a task enters the store through DatabaseManager.add_task
StoreTaskWith(deadlines) ==
  \E u \in Users, deadline \in deadlines :
    /\ nextTaskId <= MaxTasks
    /\ tasks' = add_task(u, <<"T">>, "work", deadline)
    /\ nextTaskId' = nextTaskId + 1
    /\ UNCHANGED reminders
    /\ lastUpdate' = NoUpdate
    /\ reply' = Report(u, "stored", nextTaskId)
    /\ UNCHANGED appBVars /\ UNCHANGED <<noteVars, calVars, convVars, now, userVars, delete_prompts, complete_pc>>

StoreTask == StoreTaskWith({NoDeadline})

(* --------------------- TaskHandler: /complete, /delete ---------------- *)
already_completed_unchecked(task_id) == FALSE

\* the test `task['status'] == 'completed'` of TaskHandler.complete_task
already_completed(task_id) == tasks[task_id].status = "completed"

complete_task ==
  \E u \in Users, a \in CommandArgs :
    /\ lastUpdate' = Command(u, "complete", a.kind, a.id)
    /\ UNCHANGED appBVars /\ UNCHANGED <<nextTaskId, reminders, noteVars, calVars, convVars, now, userVars, delete_prompts, complete_pc>>
    /\ IF a.kind = "none"
         THEN reply' = Report(u, "usage", 0) /\ tasks' = tasks
       ELSE IF a.kind = "bad"
         THEN reply' = Report(u, "invalid_id", 0) /\ tasks' = tasks
       ELSE IF get_task(a.id, u) = NoTask
         THEN reply' = Report(u, "not_found", a.id) /\ tasks' = tasks
       ELSE IF already_completed(a.id)
         THEN reply' = Report(u, "already_completed", a.id) /\ tasks' = tasks
       ELSE /\ tasks' = db_complete_task(a.id, u)
            /\ reply' = Report(u, "completed", a.id)

\* the value DatabaseManager.complete_task returns: True when the row is found
complete_task_found(task_id, user_id) == get_task(task_id, user_id) # NoTask

\* TaskHandler.complete_task from its first line to its first await: get_task, the two
\* tests and DatabaseManager.complete_task are plain calls, so nothing runs in between
complete_task_begin ==
  \E h \in Handlers, u \in Users, id \in 1..MaxTasks :
    LET kind == IF get_task(id, u) = NoTask THEN "not_found"
                ELSE IF already_completed(id) THEN "already_completed"
                ELSE IF complete_task_found(id, u) THEN "completed"
                ELSE "failed"
    IN
    /\ complete_pc[h].pc = "idle"
    /\ tasks' = IF kind = "completed" THEN db_complete_task(id, u) ELSE tasks
    /\ complete_pc' = [complete_pc EXCEPT ![h] = [pc |-> "reply", user |-> u, id |-> id, kind |-> kind]]
    /\ lastUpdate' = Command(u, "complete", "num", id)
    /\ reply' = Report(u, "none", 0)
    /\ UNCHANGED appBVars
    /\ UNCHANGED <<nextTaskId, reminders, noteVars, calVars, convVars, now, userVars, delete_prompts>>

\* the awaited reply_text of the handler is delivered and the handler ends
complete_task_reply ==
  \E h \in Handlers :
    /\ complete_pc[h].pc = "reply"
    /\ reply' = Report(complete_pc[h].user, complete_pc[h].kind, complete_pc[h].id)
    /\ complete_pc' = [complete_pc EXCEPT ![h] = NoHandler]
    /\ lastUpdate' = Command(complete_pc[h].user, "complete", "num", complete_pc[h].id)
    /\ UNCHANGED appBVars
    /\ UNCHANGED <<storeVars, noteVars, calVars, convVars, now, userVars, delete_prompts>>

NextComplete ==
  \/ StoreTask
  \/ Tick
  \/ complete_task_begin
  \/ complete_task_reply

SpecComplete == Init /\ [][NextComplete]_vars


delete_task ==
  \E u \in Users, a \in CommandArgs :
    /\ lastUpdate' = Command(u, "delete", a.kind, a.id)
    /\ UNCHANGED appBVars /\ UNCHANGED <<storeVars, noteVars, calVars, convVars, now, userVars, complete_pc>>
    /\ IF a.kind = "none"
         THEN reply' = Report(u, "usage", 0) /\ delete_prompts' = delete_prompts
       ELSE IF a.kind = "bad"
         THEN reply' = Report(u, "invalid_id", 0) /\ delete_prompts' = delete_prompts
       ELSE IF get_task(a.id, u) = NoTask
         THEN reply' = Report(u, "not_found", a.id) /\ delete_prompts' = delete_prompts
       ELSE /\ reply' = Report(u, "confirm_deletion", a.id)
            /\ delete_prompts' = delete_prompts \cup {<<u, a.id>>}

cancel_delete_unnoticed(data) == FALSE

\* the test `query.data == 'cancel_delete'` of confirm_delete_task
cancel_delete_pressed(data) == data = "cancel_delete"

\* the user presses a button of a confirmation shown earlier
confirm_delete_task ==
  \E prompt \in delete_prompts, data \in {"cancel_delete", "confirm_delete_"} :
    LET u == prompt[1]
        id == prompt[2]
    IN
    /\ UNCHANGED appBVars /\ UNCHANGED <<nextTaskId, noteVars, calVars, convVars, now, userVars, delete_prompts, complete_pc>>
    /\ IF cancel_delete_pressed(data)
         THEN /\ lastUpdate' = CallbackQuery(u, data, "", 0)
              /\ reply' = Report(u, "deletion_cancelled", 0)
              /\ tasks' = tasks
              /\ UNCHANGED reminders
         ELSE /\ lastUpdate' = CallbackQuery(u, data, "", IF data = "cancel_delete" THEN 0 ELSE id)
              /\ tasks' = db_delete_task(id, u)
              /\ reminders' = delete_task_cascade(id, u)
              /\ reply' = Report(u, IF get_task(id, u) # NoTask THEN "deleted" ELSE "delete_failed", id)

(* ---------------------------- task life cycle -------------------------- *)
Next ==
  \/ Tick
  \/ StoreTask
  \/ complete_task
  \/ delete_task
  \/ confirm_delete_task

Spec == Init /\ [][Next]_vars

(* --------------------------- TaskHandler: /tasks ----------------------- *)
\* tasks[:10], the rows rendered per invocation
TaskPageSize == 10

StatusFilters == {"all", "pending", "completed"}
CategoryFilters == {"work", "study", "personal", "urgent"}
\* the callback data after 'filter_': the buttons of the listing
TaskFilters == StatusFilters \cup CategoryFilters \cup {"today"}

\* the update that asks for the listing: the command /tasks (no callback
\* query, filter_type stays 'all') or the press of a filter button
ViewUpdate(u, by_button, filter_type) ==
  IF by_button THEN CallbackQuery(u, "filter_", filter_type, 0) ELSE Command(u, "tasks", "none", 0)

\* view_tasks; reply.task holds the ids of the rendered rows, in order.
\* get_user_tasks(user_id) is called with its default status='pending';
\* get_tasks_due_today is not a method of DatabaseManager and get_user_tasks
\* has no parameter category: the 'today' and category branches raise
view_tasks ==
  \E u \in Users, by_button \in BOOLEAN, button \in TaskFilters :
    LET filter_type == IF by_button THEN button ELSE "all" IN
    /\ by_button \/ button = "all"
    /\ lastUpdate' = ViewUpdate(u, by_button, filter_type)
    /\ IF filter_type = "today" \/ filter_type \in CategoryFilters
         THEN reply' = Report(u, "raised", <<>>)
         ELSE \E rows \in {get_user_tasks(u, IF filter_type = "completed" THEN "completed" ELSE "pending",
                                          TaskListLimit)} :
                reply' = Report(u, IF rows = <<>> THEN "no_tasks" ELSE "tasks", FirstRows(rows, TaskPageSize))
    /\ UNCHANGED appBVars
    /\ UNCHANGED <<storeVars, noteVars, calVars, convVars, now, userVars, delete_prompts, complete_pc>>

NextView ==
  \/ StoreTask
  \/ complete_task
  \/ view_tasks

SpecView == Init /\ [][NextView]_vars

(* ------------- the Database Manager's operations, called directly ------ *)
\* Each step is one call made while serving a request of user u; reply names u, the
\* operation and the row the call returned or touched.
TaskIdArgs == 1..(MaxTasks + 1)
NoteIdArgs == 1..(MaxNotes + 1)

DbAddTask ==
  /\ StoreTaskWith({NoDeadline})

DbGetTask ==
  \E u \in Users, id \in TaskIdArgs :
    /\ reply' = Report(u, "get_task", get_task(id, u))
    /\ lastUpdate' = NoUpdate
    /\ UNCHANGED appBVars /\ UNCHANGED <<storeVars, noteVars, calVars, convVars, now, userVars, delete_prompts, complete_pc>>

DbCompleteTask ==
  \E u \in Users, id \in TaskIdArgs :
    /\ tasks' = db_complete_task(id, u)
    /\ reply' = Report(u, "complete_task", get_task(id, u))
    /\ lastUpdate' = NoUpdate
    /\ UNCHANGED appBVars /\ UNCHANGED <<nextTaskId, reminders, noteVars, calVars, convVars, now, userVars, delete_prompts, complete_pc>>

DbDeleteTask ==
  \E u \in Users, id \in TaskIdArgs :
    /\ tasks' = db_delete_task(id, u)
    /\ reminders' = delete_task_cascade(id, u)
    /\ reply' = Report(u, "delete_task", get_task(id, u))
    /\ lastUpdate' = NoUpdate
    /\ UNCHANGED appBVars /\ UNCHANGED <<nextTaskId, noteVars, calVars, convVars, now, userVars, delete_prompts, complete_pc>>

\* the call takes no user id: u is the user whose request is being served
DbUpdateTaskCalendarEvent ==
  \E u \in Users, id \in TaskIdArgs, event_id \in {NoEvent, 1} :
    /\ tasks' = update_task_calendar_event(id, event_id)
    /\ reply' = Report(u, "update_task_calendar_event", IF id \in DOMAIN tasks THEN id ELSE NoTask)
    /\ lastUpdate' = NoUpdate
    /\ UNCHANGED appBVars /\ UNCHANGED <<nextTaskId, reminders, noteVars, calVars, convVars, now, userVars, delete_prompts, complete_pc>>

DbCreateNote ==
  \E u \in Users :
    /\ nextNoteId <= MaxNotes
    /\ notes' = create_note(u, <<"N">>, "draft", "None", None)
    /\ nextNoteId' = nextNoteId + 1
    /\ reply' = Report(u, "create_note", nextNoteId)
    /\ lastUpdate' = NoUpdate
    /\ UNCHANGED appBVars /\ UNCHANGED <<storeVars, calVars, convVars, now, userVars, delete_prompts, complete_pc>>

DbGetNote ==
  \E u \in Users, id \in NoteIdArgs :
    /\ reply' = Report(u, "get_note", get_note(id, u))
    /\ lastUpdate' = NoUpdate
    /\ UNCHANGED appBVars /\ UNCHANGED <<storeVars, noteVars, calVars, convVars, now, userVars, delete_prompts, complete_pc>>

DbUpdateNote ==
  \E u \in Users, id \in NoteIdArgs :
    /\ notes' = update_note(id, u, "edited")
    /\ reply' = Report(u, "update_note", get_note(id, u))
    /\ lastUpdate' = NoUpdate
    /\ UNCHANGED appBVars /\ UNCHANGED <<storeVars, nextNoteId, calVars, convVars, now, userVars, delete_prompts, complete_pc>>

DbDeleteNote ==
  \E u \in Users, id \in NoteIdArgs :
    /\ notes' = delete_note(id, u)
    /\ reply' = Report(u, "delete_note", get_note(id, u))
    /\ lastUpdate' = NoUpdate
    /\ UNCHANGED appBVars /\ UNCHANGED <<storeVars, nextNoteId, calVars, convVars, now, userVars, delete_prompts, complete_pc>>

NextDb ==
  \/ DbAddTask
  \/ DbGetTask
  \/ DbCompleteTask
  \/ DbDeleteTask
  \/ DbUpdateTaskCalendarEvent
  \/ DbCreateNote
  \/ DbGetNote
  \/ DbUpdateNote
  \/ DbDeleteNote

SpecDb == Init /\ [][NextDb]_vars

(* -------------------- Database Manager: reminders ---------------------- *)
\* the table reminders holds at most this many rows
MaxReminders == 1

\* the id SQLite gives a new row of a table with an INTEGER PRIMARY KEY that
\* is not declared AUTOINCREMENT: one more than the largest id in the table
next_rowid(table) ==
  IF DOMAIN table = {} THEN 1
  ELSE (CHOOSE m \in DOMAIN table : \A i \in DOMAIN table : i <= m) + 1

\* DatabaseManager.add_reminder: the table after the call (sent defaults to False)
add_reminder(user_id, reminder_time, task_id) ==
  [i \in (DOMAIN reminders) \cup {next_rowid(reminders)} |->
     IF i \in DOMAIN reminders THEN reminders[i]
     ELSE [user_id |-> user_id, task_id |-> task_id, reminder_time |-> reminder_time,
           sent |-> FALSE, created_at |-> now]]

get_pending_reminders_sent_too ==
  {id \in DOMAIN reminders : reminders[id].reminder_time <= now}

\* DatabaseManager.get_pending_reminders: the ids of the rows returned
get_pending_reminders ==
  {id \in DOMAIN reminders : reminders[id].sent = FALSE /\ reminders[id].reminder_time <= now}

\* DatabaseManager.mark_reminder_sent: the table after the call
mark_reminder_sent(reminder_id) ==
  IF reminder_id \in DOMAIN reminders
    THEN [reminders EXCEPT ![reminder_id].sent = TRUE]
    ELSE reminders

ReminderFrame ==
  /\ lastUpdate' = NoUpdate
  /\ UNCHANGED appBVars
  /\ UNCHANGED <<tasks, nextTaskId, noteVars, calVars, convVars, now, delete_prompts, complete_pc>>
  /\ UNCHANGED <<premiumVars, cal_conv, brain_conv, usersVars, slots_in, slots_out>>

\* add_reminder called for a user: a general reminder or one for a task of
\* theirs, due now or in an hour
DbAddReminder ==
  \E u \in Users, due \in {now, now + 1} :
    \E task_id \in {NoTask} \cup {id \in DOMAIN tasks : tasks[id].user_id = u} :
      /\ Cardinality(DOMAIN reminders) < MaxReminders
      /\ reminders' = add_reminder(u, due, task_id)
      /\ request' = [op |-> "add_reminder", user |-> u]
      /\ response' = <<next_rowid(reminders)>>
      /\ reply' = NoReply
      /\ ReminderFrame

DbGetPendingReminders ==
  /\ request' = [op |-> "get_pending_reminders", user |-> 0]
  /\ response' = get_pending_reminders
  /\ reply' = NoReply
  /\ UNCHANGED reminders
  /\ ReminderFrame

DbMarkReminderSent ==
  \E reminder_id \in 1..(MaxReminders + 1) :
    /\ reminders' = mark_reminder_sent(reminder_id)
    /\ request' = [op |-> "mark_reminder_sent", user |-> 0]
    /\ response' = <<reminder_id \in DOMAIN reminders>>
    /\ reply' = NoReply
    /\ ReminderFrame

\* each user has stored one task
InitReminders ==
  /\ InitCalendar
  /\ InitChat
  /\ InitB
  /\ tasks = [id \in Users |-> NewTask(id, <<"T">>, "work", NoDeadline)]
  /\ nextTaskId = Cardinality(Users) + 1
  /\ reminders = EmptyDict

NextReminders ==
  \/ Tick
  \/ DbDeleteTask
  \/ DbAddReminder
  \/ DbGetPendingReminders
  \/ DbMarkReminderSent

SpecReminders == InitReminders /\ [][NextReminders]_vars

(* =========================== Application B =========================== *)
(* ------------------- processor.process_text_with_ai -------------------- *)
NEED_CLARIFICATION == "NEED_CLARIFICATION"

\* what the chat completion can answer: no usable answer (request error, or text that
\* json.loads rejects), or a JSON object; EmptyObject is an object without the keys
AiFailure == [failed |-> TRUE, complete |-> FALSE, type |-> "", content |-> "", category |-> "", time |-> ""]
AiObject(type, time) ==
  [failed |-> FALSE, complete |-> TRUE, type |-> type, content |-> "summary", category |-> "Work", time |-> time]
EmptyObject == [failed |-> FALSE, complete |-> FALSE, type |-> "", content |-> "", category |-> "", time |-> ""]
AiAnswers ==
  {AiFailure, EmptyObject, AiObject("idea", "null"),
   AiObject("task", "10:00"), AiObject("task", "null"), AiObject("task", NEED_CLARIFICATION)}

fallback_drops_text(user_text) ==
  [complete |-> TRUE, type |-> "idea", content |-> "summary", category |-> "General", time |-> "null"]

\* the dictionary returned by the except branch
fallback(user_text) ==
  [complete |-> TRUE, type |-> "idea", content |-> user_text, category |-> "General", time |-> "null"]

process_text_with_ai(user_text, answer) ==
  IF answer.failed
    THEN fallback(user_text)
    ELSE [complete |-> answer.complete, type |-> answer.type, content |-> answer.content,
          category |-> answer.category, time |-> answer.time]

(* -------------------- google_service / database.py --------------------- *)
\* the event google_service.add_event inserts
add_event(summary, time_str) ==
  [summary |-> summary,
   start |-> IF time_str # "null" /\ time_str # NEED_CLARIFICATION THEN time_str ELSE "all_day"]

save_idea(content, category) == Append(ideas, [content |-> content, category |-> category])

UserTexts == {"call mom at 5", "a thought"}
VoiceFile == "voice.ogg"

\* the record of one handled message: the classifier's answers in call order, the last
\* status shown, whether the handler returned (or raised), whether a service call failed
Handled(handler, text, answers, rep, fault) ==
  [handler |-> handler, text |-> text, answers |-> answers, reply |-> rep, returned |-> TRUE, fault |-> fault]
Raised(handler, text, answers) ==
  [handler |-> handler, text |-> text, answers |-> answers, reply |-> "none", returned |-> FALSE, fault |-> TRUE]

(* ------------------------------ handle_text ---------------------------- *)
handle_text ==
  \E user_input \in UserTexts, answer \in AiAnswers, calendar_ok \in BOOLEAN :
    LET result == process_text_with_ai(user_input, answer) IN
    /\ Len(ideas) < MaxIdeas /\ Len(gcal) < MaxIdeas
    /\ UNCHANGED <<appAVars, pollVars, files, listVars>>
    /\ IF result.complete /\ result.type = "task"
         THEN IF calendar_ok
                THEN /\ gcal' = Append(gcal, add_event(result.content, result.time))
                     /\ ideas' = ideas
                     /\ b_last' = Handled("text", user_input, <<answer>>, "task_added", FALSE)
                ELSE /\ UNCHANGED <<gcal, ideas>>
                     /\ b_last' = Handled("text", user_input, <<answer>>, "error", TRUE)
       ELSE IF result.complete
         THEN /\ ideas' = save_idea(result.content, result.category)
              /\ gcal' = gcal
              /\ b_last' = Handled("text", user_input, <<answer>>, "idea_saved", FALSE)
       ELSE \* result['content'] raises KeyError, caught by the handler
            /\ UNCHANGED <<gcal, ideas>>
            /\ b_last' = Handled("text", user_input, <<answer>>, "error", FALSE)

(* ------------------------------ handle_voice --------------------------- *)
\* the branch "task -> add_event, else -> save_idea" applied to the store st, inside
\* a try: a missing key or a failing calendar call is caught and nothing is stored
Store(st, result, calendar_ok) ==
  IF ~result.complete THEN st
  ELSE IF result.type = "task"
    THEN IF calendar_ok
           THEN [st EXCEPT !.gcal = Append(@, add_event(result.content, result.time))]
           ELSE st
  ELSE [st EXCEPT !.ideas = Append(@, [content |-> result.content, category |-> result.category])]

\* that branch raised
StoreRaises(result, calendar_ok) == ~result.complete \/ ~calendar_ok

\* the calendar is called for a task only
CalendarOutcomes(result) ==
  IF result.complete /\ result.type = "task" THEN BOOLEAN ELSE {TRUE}

NeedsClarification(result) ==
  result.complete /\ result.type = "task" /\ result.time = NEED_CLARIFICATION

VoiceEnds(st, disk, record) ==
  /\ ideas' = st.ideas
  /\ gcal' = st.gcal
  /\ files' = disk
  /\ b_last' = record
  /\ UNCHANGED <<appAVars, pollVars, listVars>>

\* lines 293-321: the third draft, then the closing notice; its finally removes
\* the file
VoiceThird(st, text, answers, fault) ==
  \E transcribe2 \in BOOLEAN :
    IF ~transcribe2
      THEN VoiceEnds(st, files \ {VoiceFile},
                     Handled("voice", text, answers, "service_notice", TRUE))
      ELSE \E answer3 \in AiAnswers :
             LET result3 == process_text_with_ai(text, answer3) IN
             \E calendar3 \in CalendarOutcomes(result3) :
               VoiceEnds(Store(st, result3, calendar3), files \ {VoiceFile},
                         Handled("voice", text, Append(answers, answer3), "service_notice",
                                 fault \/ StoreRaises(result3, calendar3)))

\* lines 269-291: the second draft, outside any try: what raises here leaves the
\* handler, and the file downloaded at line 275 stays on disk
VoiceSecond(st, text, answers, fault) ==
  \E answer2 \in AiAnswers, download2 \in BOOLEAN :
    LET result2 == process_text_with_ai(text, answer2)
        answers2 == Append(answers, answer2)
        with_file == files \cup {VoiceFile}
    IN
    IF ~download2
      THEN VoiceEnds(st, files \ {VoiceFile}, Raised("voice", text, answers2))
    ELSE IF ~result2.complete
      THEN VoiceEnds(st, with_file, Raised("voice", text, answers2))
    ELSE IF result2.type # "task"
      THEN VoiceThird(st, text, answers2, fault)
    ELSE IF result2.time = NEED_CLARIFICATION
      THEN VoiceEnds(st, with_file, Handled("voice", text, answers2, "clarify", fault))
    ELSE \E calendar2 \in BOOLEAN :
           IF calendar2
             THEN VoiceThird(Store(st, result2, TRUE), text, answers2, fault)
             ELSE VoiceEnds(st, with_file, Raised("voice", text, answers2))

\* lines 223-268: the first draft; the function body then runs on into the second
handle_voice ==
  \E text \in UserTexts, download1 \in BOOLEAN :
    LET st0 == [ideas |-> ideas, gcal |-> gcal]
        without_file == files \ {VoiceFile}
    IN
    /\ Len(ideas) < MaxIdeas /\ Len(gcal) < MaxIdeas
    /\ IF ~download1
         THEN \* caught at line 261; line 270 then reads `text`, never assigned
              VoiceEnds(st0, without_file, Raised("voice", text, <<>>))
         ELSE \E transcribe1 \in BOOLEAN :
                IF ~transcribe1
                  THEN VoiceEnds(st0, without_file, Raised("voice", text, <<>>))
                  ELSE \E answer1 \in AiAnswers :
                         LET result1 == process_text_with_ai(text, answer1) IN
                         IF NeedsClarification(result1)
                           THEN \* line 250: return inside the try
                                VoiceEnds(st0, without_file,
                                          Handled("voice", text, <<answer1>>, "clarify", FALSE))
                           ELSE \* lines 252-259; what raises is caught at line 261
                                \E calendar1 \in CalendarOutcomes(result1) :
                                  VoiceSecond(Store(st0, result1, calendar1), text, <<answer1>>,
                                              StoreRaises(result1, calendar1))

NextMsg ==
  \/ handle_text
  \/ handle_voice

SpecMsg == Init /\ [][NextMsg]_vars

(* ------------------------------- /ideas -------------------------------- *)
RECURSIVE Reverse(_)
Reverse(list) == IF list = <<>> THEN <<>> ELSE Reverse(Tail(list)) \o <<Head(list)>>

\* database.get_all_ideas: SELECT content, category FROM ideas ORDER BY
\* timestamp DESC on ideas.db, the file save_idea writes
get_all_ideas == Reverse(ideas)

\* two handlers are registered for Command("ideas"), show_ideas first and
\* list_ideas second: the dispatcher calls the first handler whose filter
\* passes, so /ideas is answered by show_ideas.  It sends the numbered
\* contents and no keyboard.  list_ideas, which reads smartlife.db and adds
\* a delidea_ button per row, is not reached, and no delidea_ button exists
\* for process_delete_idea to be called with.
show_ideas ==
  LET rows == get_all_ideas IN
  /\ idea_listing' =
       IF rows = <<>> THEN NoListing
       ELSE [lines |-> [i \in DOMAIN rows |-> rows[i].content], buttons |-> {}]
  /\ b_last' = Handled("ideas", "/ideas", <<>>, IF rows = <<>> THEN "no_ideas" ELSE "listing", FALSE)
  /\ UNCHANGED <<appAVars, pollVars, ideas, gcal, files, list_buttons>>

NextIdeas ==
  \/ handle_text
  \/ handle_voice
  \/ show_ideas

SpecIdeas == Init /\ [][NextIdeas]_vars

(* -------------------------------- /list -------------------------------- *)
\* ids the calendar provider gives: an event of its own, and the instances of a
\* recurring event, which events().list(singleEvents=True) returns under the id of
\* the recurring event followed by _ and the start of the instance
SingleIds == {<<"e", "1">>, <<"e", "2">>}
RecurringId == <<"r", "1">>
InstanceId(day) == RecurringId \o <<"_", day>>
InstanceDays == {"a", "b"}
ProviderIds == SingleIds \cup {InstanceId(day) : day \in InstanceDays}

\* google_service.get_events_for_date, the events of the calendar being those of the day
get_events_for_date == gcal

\* line 77: callback_data=f"del_{event_id}"
delete_button(event_id) == <<"d", "e", "l", "_">> \o event_id

\* lines 134-135: parts = callback.data.split("_"); event_id = parts[1]
event_id_of(data) == split(data, "_")[2]

\* events().delete(eventId) removes the event of that id; given the id of a
\* recurring event it removes the event with all its instances
removed_by(id, event_id) == id = event_id \/ split(id, "_")[1] = event_id

RECURSIVE delete_event(_, _)
\* google_service.delete_event: the calendar after the call
delete_event(calendar, event_id) ==
  IF calendar = <<>> THEN <<>>
  ELSE (IF removed_by(Head(calendar).id, event_id) THEN <<>> ELSE <<Head(calendar)>>)
         \o delete_event(Tail(calendar), event_id)

ListFrame ==
  /\ UNCHANGED <<appAVars, pollVars, ideas, files, idea_listing>>

\* a day button of /list is pressed: one delete button per event of the day
process_list_callback ==
  LET day_events == get_events_for_date IN
  /\ list_buttons' = [i \in DOMAIN day_events |->
                        [callback_data |-> delete_button(day_events[i].id), event |-> day_events[i].id]]
  /\ b_last' = Handled("list", "list_today", <<>>, IF day_events = <<>> THEN "no_events" ELSE "listing", FALSE)
  /\ UNCHANGED gcal
  /\ ListFrame

\* a delete button of the listing is pressed
delete_event_handler ==
  \E i \in DOMAIN list_buttons :
    LET data == list_buttons[i].callback_data
        event_id == event_id_of(data)
    IN
    IF delete_event(gcal, event_id) = gcal
      THEN \* the provider answers 404, the handler reports the error
           /\ b_last' = Handled("delete_event", data, <<event_id>>, "error", TRUE)
           /\ UNCHANGED <<gcal, list_buttons>>
           /\ ListFrame
      ELSE /\ gcal' = delete_event(gcal, event_id)
           /\ b_last' = Handled("delete_event", data, <<event_id>>, "deleted", FALSE)
           /\ list_buttons' = <<>>
           /\ ListFrame

\* an event appears in the calendar (added there by the user or by the bot)
CalendarGains ==
  \E id \in ProviderIds :
    /\ \A i \in DOMAIN gcal : gcal[i].id # id
    /\ gcal' = Append(gcal, [id |-> id])
    /\ b_last' = NoMessage
    /\ UNCHANGED list_buttons
    /\ ListFrame

NextList ==
  \/ CalendarGains
  \/ process_list_callback
  \/ delete_event_handler

SpecList == Init /\ [][NextList]_vars

(* ----------------------- task conversation ---------------------------- *)
RECURSIVE lstrip(_)
lstrip(txt) == IF txt # <<>> /\ Head(txt) = " " THEN lstrip(Tail(txt)) ELSE txt

RECURSIVE rstrip(_)
rstrip(txt) ==
  IF txt # <<>> /\ txt[Len(txt)] = " " THEN rstrip(SubSeq(txt, 1, Len(txt) - 1)) ELSE txt

\* str.strip()
strip(txt) == rstrip(lstrip(txt))

\* texts a user can send; "#" stands for the emoji of a keyboard button
ShortTitle == <<" ", "a", "b", " ">>
GoodTitle == <<"B", "u", "y", " ", "m", "i", "l", "k">>
LongTitle == [i \in 1..(TitleMaxLen + 1) |-> "x"]
CancelButton == <<"#", " ", "C", "a", "n", "c", "e", "l">>
FutureDateText == <<"3", "1", "-", "1", "2", "-", "2", "0", "9", "9">>
PastDateText == <<"0", "1", "-", "0", "1", "-", "2", "0", "0", "0">>

TitleTexts == {ShortTitle, GoodTitle, LongTitle}
InvalidDayText == <<"3", "1", "-", "0", "2", "-", "2", "0", "2", "6">>
NoLeapDayText == <<"2", "9", "-", "0", "2", "-", "2", "0", "2", "7">>
LeapDayText == <<"2", "9", "-", "0", "2", "-", "2", "0", "2", "8">>
EpochDayText == <<"1", "5", "-", "0", "1", "-", "2", "0", "2", "6">>
DayBeforeText == <<"1", "4", "-", "0", "1", "-", "2", "0", "2", "6">>
TimedText == EpochDayText \o <<" ", "0", "0", ":", "3", "0">>
LaterTimedText == <<" ">> \o EpochDayText \o <<" ", "1", "4", ":", "3", "0", " ">>
BadHourText == EpochDayText \o <<" ", "2", "4", ":", "0", "0">>
NoTimeText == EpochDayText \o <<" ", "x">>
YearFirstText == <<"2", "0", "2", "6", "-", "0", "1", "-", "1", "5">>

DateTexts ==
  {FutureDateText, PastDateText, CancelButton, InvalidDayText, NoLeapDayText, LeapDayText,
   EpochDayText, DayBeforeText, TimedText, LaterTimedText, BadHourText, NoTimeText,
   YearFirstText}
OtherTexts == {GoodTitle, CancelButton}

\* the ReplyKeyboardMarkup of get_task_category_keyboard(): pressing a button sends
\* its label as a text message
get_task_category_keyboard ==
  {<<"#", " ", "W", "o", "r", "k">>, <<"#", " ", "S", "t", "u", "d", "y">>,
   <<"#", " ", "P", "e", "r", "s", "o", "n", "a", "l">>,
   <<"#", " ", "U", "r", "g", "e", "n", "t">>, CancelButton}

(* datetime.strptime: '%d-%m-%Y %H:%M' when the text holds a space, '%d-%m-%Y'
   otherwise (task_handler.py lines 178-183) *)
DigitChars == <<"0", "1", "2", "3", "4", "5", "6", "7", "8", "9">>
IsDigit(c) == \E i \in 1..Len(DigitChars) : DigitChars[i] = c
DigitValue(c) == (CHOOSE i \in 1..Len(DigitChars) : DigitChars[i] = c) - 1

RECURSIVE ToNumber(_)
\* int() of a run of digits
ToNumber(digits) ==
  IF digits = <<>> THEN 0
  ELSE 10 * ToNumber(SubSeq(digits, 1, Len(digits) - 1)) + DigitValue(digits[Len(digits)])

\* a run of lo..hi digits, as the directive's pattern asks
DigitRun(field, lo, hi) ==
  /\ Len(field) >= lo
  /\ Len(field) <= hi
  /\ \A i \in 1..Len(field) : IsDigit(field[i])

\* position of the first sep in txt, 0 when there is none
Find(txt, sep) ==
  IF \E i \in 1..Len(txt) : txt[i] = sep
    THEN CHOOSE i \in 1..Len(txt) : txt[i] = sep /\ \A j \in 1..(i - 1) : txt[j] # sep
    ELSE 0

Before(txt, sep) == SubSeq(txt, 1, Find(txt, sep) - 1)
After(txt, sep) == SubSeq(txt, Find(txt, sep) + 1, Len(txt))

IsLeap(year) == (year % 4 = 0 /\ year % 100 # 0) \/ year % 400 = 0

DaysInMonth(year, month) ==
  IF month = 2 THEN (IF IsLeap(year) THEN 29 ELSE 28)
  ELSE IF month \in {4, 6, 9, 11} THEN 30
  ELSE 31

\* the fields of a text: day-month-year, and hour:minute after the space if any
DateFields(date_text) ==
  LET has_time == Find(date_text, " ") # 0
      date_part == IF has_time THEN Before(date_text, " ") ELSE date_text
      time_part == IF has_time THEN lstrip(After(date_text, " ")) ELSE <<"0", ":", "0">>
  IN [day |-> Before(date_part, "-"),
      month |-> Before(After(date_part, "-"), "-"),
      year |-> After(After(date_part, "-"), "-"),
      hour |-> Before(time_part, ":"),
      minute |-> After(time_part, ":")]

\* strptime raises ValueError: the text does not match the format, or the fields
\* are no date of the calendar
ValueError(date_text) ==
  LET f == DateFields(date_text) IN
  ~(/\ DigitRun(f.day, 1, 2) /\ DigitRun(f.month, 1, 2) /\ DigitRun(f.year, 4, 4)
    /\ DigitRun(f.hour, 1, 2) /\ DigitRun(f.minute, 1, 2)
    /\ ToNumber(f.year) >= 1
    /\ ToNumber(f.month) \in 1..12
    /\ ToNumber(f.day) \in 1..DaysInMonth(ToNumber(f.year), ToNumber(f.month))
    /\ ToNumber(f.hour) \in 0..23
    /\ ToNumber(f.minute) \in 0..59)

Datetime(year, month, day, hour, minute) ==
  [year |-> year, month |-> month, day |-> day, hour |-> hour, minute |-> minute]

\* the datetime strptime returns
strptime(date_text) ==
  LET f == DateFields(date_text) IN
  Datetime(ToNumber(f.year), ToNumber(f.month), ToNumber(f.day),
           ToNumber(f.hour), ToNumber(f.minute))

\* the instant the model's clock counts its hours from
ClockStart == Datetime(2026, 1, 15, 0, 0)

RECURSIVE DaysBeforeMonth(_, _)
DaysBeforeMonth(year, month) ==
  IF month = 1 THEN 0 ELSE DaysBeforeMonth(year, month - 1) + DaysInMonth(year, month - 1)

\* date.toordinal()
toordinal(d) ==
  LET y == d.year - 1 IN
  365 * y + (y \div 4) - (y \div 100) + (y \div 400) + DaysBeforeMonth(d.year, d.month) + d.day

\* minutes from ClockStart to the datetime d
MinutesFromStart(d) ==
  ((toordinal(d) - toordinal(ClockStart)) * HoursPerDay + d.hour) * 60 + d.minute

in_the_past_never(deadline) == FALSE

\* deadline < datetime.now(), the clock being at the full hour
in_the_past(deadline) == MinutesFromStart(deadline) < now * 60

Categories == {"work"}
DeadlineChoices == {"today", "tomorrow", "week", "nextweek", "custom", "none"}
Priorities == 0..3

\* tasks the user created today (the method is called at task_handler.py line 32)
get_tasks_count_today(user_id) ==
  Cardinality({id \in DOMAIN tasks :
                 tasks[id].user_id = user_id /\ tasks[id].created_at \div HoursPerDay = now \div HoursPerDay})

\* dict.get(key) of user_data, None as FALSE for the flag
user_data_get(u, key, default) == IF DictHas(user_data[u], key) THEN user_data[u][key] ELSE default

ConvFrame ==
  /\ UNCHANGED appBVars
  /\ UNCHANGED <<noteVars, calVars, now, userVars, delete_prompts, complete_pc>>

\* entry point /addtask, taken when the user has no conversation
add_task_start ==
  \E u \in Users :
    /\ conv[u] = END
    /\ lastUpdate' = Command(u, "addtask", "none", 0)
    /\ IF ~premium_status[u] /\ get_tasks_count_today(u) >= FreeTierDailyTasks
         THEN /\ reply' = Report(u, "limit_reached", 0)
              /\ UNCHANGED conv
         ELSE /\ reply' = Report(u, "ask_title", 0)
              /\ conv' = [conv EXCEPT ![u] = WAITING_TASK_TITLE]
    /\ UNCHANGED <<storeVars, user_data>>
    /\ ConvFrame

receive_task_title ==
  \E u \in Users, text \in TitleTexts :
    LET task_title == strip(text) IN
    /\ conv[u] = WAITING_TASK_TITLE
    /\ lastUpdate' = TextMessage(u, text)
    /\ IF Len(task_title) > TitleMaxLen
         THEN /\ reply' = Report(u, "title_too_long", 0)
              /\ UNCHANGED <<conv, user_data>>
       ELSE IF Len(task_title) < TitleMinLen
         THEN /\ reply' = Report(u, "title_too_short", 0)
              /\ UNCHANGED <<conv, user_data>>
       ELSE /\ user_data' = [user_data EXCEPT ![u] = DictSet(@, "task_title", task_title)]
            /\ reply' = Report(u, "ask_category", 0)
            /\ conv' = [conv EXCEPT ![u] = WAITING_TASK_CATEGORY]
    /\ UNCHANGED storeVars
    /\ ConvFrame

\* a callback query whose data starts with category_; no keyboard of the program
\* carries such data, a client has to make the query up
receive_task_category ==
  \E u \in Users, category \in Categories :
    /\ conv[u] = WAITING_TASK_CATEGORY
    /\ lastUpdate' = CallbackQuery(u, "category_", category, 0)
    /\ user_data' = [user_data EXCEPT ![u] = DictSet(@, "task_category", category)]
    /\ reply' = Report(u, "ask_deadline", 0)
    /\ conv' = [conv EXCEPT ![u] = WAITING_TASK_DEADLINE]
    /\ UNCHANGED storeVars
    /\ ConvFrame

receive_task_deadline ==
  \E u \in Users, deadline_choice \in DeadlineChoices :
    LET deadline == IF deadline_choice = "today" THEN now + 8
                    ELSE IF deadline_choice = "tomorrow" THEN now + HoursPerDay
                    ELSE IF deadline_choice = "week" THEN now + 7 * HoursPerDay
                    ELSE IF deadline_choice = "nextweek" THEN now + 14 * HoursPerDay
                    ELSE NoDeadline
    IN
    /\ conv[u] = WAITING_TASK_DEADLINE
    /\ lastUpdate' = CallbackQuery(u, "deadline_", deadline_choice, 0)
    /\ IF deadline_choice = "custom"
         THEN /\ user_data' = [user_data EXCEPT ![u] = DictSet(@, "waiting_custom_deadline", TRUE)]
              /\ reply' = Report(u, "ask_custom_date", 0)
              /\ UNCHANGED conv
         ELSE /\ user_data' = [user_data EXCEPT ![u] = DictSet(@, "task_deadline", deadline)]
              /\ reply' = Report(u, "ask_priority", 0)
              /\ conv' = [conv EXCEPT ![u] = WAITING_TASK_PRIORITY]
    /\ UNCHANGED storeVars
    /\ ConvFrame

receive_custom_deadline ==
  \E u \in Users, text \in DateTexts :
    LET deadline == strptime(strip(text)) IN
    /\ conv[u] = WAITING_TASK_DEADLINE
    /\ lastUpdate' = TextMessage(u, text)
    /\ IF ~user_data_get(u, "waiting_custom_deadline", FALSE)
         THEN /\ reply' = NoReply
              /\ UNCHANGED <<conv, user_data>>
       ELSE IF ValueError(strip(text))
         THEN /\ reply' = Report(u, "invalid_date", 0)
              /\ UNCHANGED <<conv, user_data>>
       ELSE IF in_the_past(deadline)
         THEN /\ reply' = Report(u, "date_in_past", 0)
              /\ UNCHANGED <<conv, user_data>>
       ELSE /\ user_data' = [user_data EXCEPT ![u] =
                               DictSet(DictSet(@, "task_deadline", deadline),
                                       "waiting_custom_deadline", FALSE)]
            /\ reply' = Report(u, "ask_priority", 0)
            /\ conv' = [conv EXCEPT ![u] = WAITING_TASK_PRIORITY]
    /\ UNCHANGED storeVars
    /\ ConvFrame

\* def add_task(self, user_id, title, description=None, category=None, deadline=None)
add_task_parameters == {"user_id", "title", "description", "category", "deadline"}

\* the keywords of the call at task_handler.py lines 239-245
priority_call_keywords == {"user_id", "title", "category", "deadline", "priority"}

\* a call with a keyword the function does not have raises TypeError
TypeError(keywords, parameters) == ~(keywords \subseteq parameters)

receive_task_priority ==
  \E u \in Users, priority \in Priorities :
    /\ conv[u] = WAITING_TASK_PRIORITY
    /\ lastUpdate' = CallbackQuery(u, "priority_", "", priority)
    /\ IF TypeError(priority_call_keywords, add_task_parameters)
         THEN \* the handler raises at line 239: nothing after it runs and the
              \* conversation keeps its state
              /\ reply' = Report(u, "raised", 0)
              /\ UNCHANGED <<storeVars, conv, user_data>>
         ELSE /\ tasks' = add_task(u, user_data[u]["task_title"], user_data[u]["task_category"],
                                   user_data_get(u, "task_deadline", NoDeadline))
              /\ nextTaskId' = nextTaskId + 1
              /\ UNCHANGED reminders
              /\ user_data' = [user_data EXCEPT ![u] = EmptyDict]
              /\ reply' = Report(u, "task_added", nextTaskId)
              /\ conv' = [conv EXCEPT ![u] = END]
    /\ ConvFrame

\* fallback /cancel, in any state of the conversation
cancel_conversation ==
  \E u \in Users :
    /\ conv[u] \in WaitingStates
    /\ lastUpdate' = Command(u, "cancel", "none", 0)
    /\ user_data' = [user_data EXCEPT ![u] = EmptyDict]
    /\ reply' = Report(u, "cancelled", 0)
    /\ conv' = [conv EXCEPT ![u] = END]
    /\ UNCHANGED storeVars
    /\ ConvFrame

\* a text message in a state whose handlers are callback handlers only: neither a
\* state handler nor the fallback matches, the update is not handled
unmatched_text ==
  \E u \in Users, text \in OtherTexts \cup get_task_category_keyboard :
    /\ conv[u] \in {WAITING_TASK_CATEGORY, WAITING_TASK_PRIORITY}
    /\ lastUpdate' = TextMessage(u, text)
    /\ reply' = NoReply
    /\ UNCHANGED <<storeVars, conv, user_data>>
    /\ ConvFrame

NextConv ==
  \/ Tick
  \/ add_task_start
  \/ receive_task_title
  \/ receive_task_category
  \/ receive_task_deadline
  \/ receive_custom_deadline
  \/ receive_task_priority
  \/ cancel_conversation
  \/ unmatched_text

SpecConv == Init /\ [][NextConv]_vars

(* --------------------------- calendar sync ----------------------------- *)
get_calendar_tokens(user_id) ==
  IF calendar_connected[user_id] THEN calendar_tokens[user_id] ELSE NoTokens

is_connected(user_id) == get_calendar_tokens(user_id) # NoTokens

\* what get_credentials leaves in users.calendar_tokens: expired credentials
\* are refreshed and saved with save_calendar_tokens
get_credentials(user_id, refreshed) ==
  IF get_calendar_tokens(user_id) # NoTokens /\ refreshed
    THEN [calendar_tokens EXCEPT ![user_id] = "refreshed tokens"]
    ELSE calendar_tokens

SyncReport(u, synced, failed) ==
  [user |-> u, kind |-> "sync_complete", task |-> 0, synced |-> synced, failed |-> failed]

AWAITING_OAUTH_CODE == "AWAITING_OAUTH_CODE"

CalConvFrame ==
  /\ UNCHANGED appBVars
  /\ UNCHANGED <<storeVars, noteVars, convVars, now, premiumVars, delete_prompts, complete_pc, events, nextEventId>>
  /\ UNCHANGED <<usersVars, slotVars, brain_conv>>

\* /connect_calendar, the entry point of the calendar conversation
\* (allow_reentry: it is taken in every state of the conversation)
connect_calendar ==
  \E u \in Users, auth_url \in BOOLEAN :
    /\ lastUpdate' = Command(u, "connect_calendar", "none", 0)
    /\ IF is_connected(u)
         THEN /\ reply' = Report(u, "already_connected", 0)
              /\ cal_conv' = [cal_conv EXCEPT ![u] = END]
       ELSE IF ~auth_url
         THEN /\ reply' = Report(u, "no_auth_url", 0)
              /\ cal_conv' = [cal_conv EXCEPT ![u] = END]
       ELSE /\ reply' = Report(u, "authorize", 0)
            /\ cal_conv' = [cal_conv EXCEPT ![u] = AWAITING_OAUTH_CODE]
    /\ UNCHANGED <<calendar_tokens, calendar_connected>>
    /\ CalConvFrame

\* the handler of AWAITING_OAUTH_CODE registered as CommandHandler('start', ...);
\* exchange_code_for_tokens may fail
receive_oauth_code ==
  \E u \in Users, success \in BOOLEAN :
    /\ cal_conv[u] = AWAITING_OAUTH_CODE
    /\ lastUpdate' = Command(u, "start", "none", 0)
    /\ IF success
         THEN /\ calendar_tokens' = [calendar_tokens EXCEPT ![u] = "tokens"]
              /\ calendar_connected' = [calendar_connected EXCEPT ![u] = TRUE]
              /\ reply' = Report(u, "calendar_connected", 0)
         ELSE /\ UNCHANGED <<calendar_tokens, calendar_connected>>
              /\ reply' = Report(u, "connection_failed", 0)
    /\ cal_conv' = [cal_conv EXCEPT ![u] = END]
    /\ CalConvFrame

\* /cancel in AWAITING_OAUTH_CODE
calendar_cancel ==
  \E u \in Users :
    /\ cal_conv[u] = AWAITING_OAUTH_CODE
    /\ lastUpdate' = Command(u, "cancel", "none", 0)
    /\ reply' = Report(u, "cancelled", 0)
    /\ cal_conv' = [cal_conv EXCEPT ![u] = END]
    /\ UNCHANGED <<calendar_tokens, calendar_connected>>
    /\ CalConvFrame

\* a plain message in AWAITING_OAUTH_CODE: the state lists command handlers
\* only, so the conversation does not handle it
oauth_code_text ==
  \E u \in Users :
    /\ cal_conv[u] = AWAITING_OAUTH_CODE
    /\ lastUpdate' = TextMessage(u, <<"code">>)
    /\ reply' = NoReply
    /\ UNCHANGED <<calendar_tokens, calendar_connected, cal_conv>>
    /\ CalConvFrame

delete_calendar_tokens_keeps_blob(user_id) == calendar_tokens

\* the column calendar_tokens after delete_calendar_tokens
delete_calendar_tokens(user_id) == [calendar_tokens EXCEPT ![user_id] = NoTokens]

disconnect_calendar ==
  \E u \in Users :
    /\ lastUpdate' = Command(u, "disconnect_calendar", "none", 0)
    /\ IF ~is_connected(u)
         THEN /\ UNCHANGED <<calendar_tokens, calendar_connected>>
              /\ reply' = Report(u, "not_connected", 0)
         ELSE /\ calendar_tokens' = delete_calendar_tokens(u)
              /\ calendar_connected' = [calendar_connected EXCEPT ![u] = FALSE]
              /\ reply' = Report(u, "calendar_disconnected", 0)
    /\ UNCHANGED appBVars
    /\ UNCHANGED <<storeVars, noteVars, convVars, now, userVars, delete_prompts, complete_pc, events, nextEventId>>

\* sync_task_to_calendar returns an event id (and not None): the user has
\* credentials, the task is theirs, task.deadline.isoformat() does not raise on a
\* missing deadline, and the calendar insert succeeds
sync_task_to_calendar(user_id, task_id, insert_ok) ==
  /\ is_connected(user_id)
  /\ get_task(task_id, user_id) # NoTask
  /\ tasks[task_id].deadline # NoDeadline
  /\ insert_ok

already_synced_never(row) == FALSE

\* line 178: if not task.calendar_event_id
already_synced(row) == row.calendar_event_id # NoEvent

\* the tasks whose calendar insert fails during one /sync: none, all, or one of
\* the oldest
FailingSets == {{}, DOMAIN tasks} \cup {{id} : id \in (DOMAIN tasks) \cap (1..(MaxTasks + 1))}

\* events can outnumber the tasks ever stored by at most this many
MaxSpareEvents == 1
MaxMoodLogs == 1
MaxAiCalls == 1
MaxDuration == 2
MaxDaysAhead == 5

\* lines 142-192; nothing awaits between get_user_tasks and the end of the loop, so
\* the loop is one step: `attempted` are the positions of the list it calls
\* sync_task_to_calendar for, `created` those that return an event id, in list order
sync_tasks ==
  \E u \in Users, failing \in FailingSets :
  \E list \in {get_user_tasks(u, "pending", TaskListLimit)} :
  \E attempted \in {{i \in 1..Len(list) : ~already_synced(tasks[list[i]])}} :
  \E created \in {{i \in attempted :
                     sync_task_to_calendar(u, list[i], list[i] \notin failing)}} :
    LET event_id(i) == nextEventId + Cardinality({j \in created : j < i})
        position(id) == CHOOSE i \in created : list[i] = id
    IN
    /\ nextEventId <= nextTaskId + MaxSpareEvents
    /\ lastUpdate' = Command(u, "sync", "none", 0)
    /\ IF ~is_connected(u)
         THEN /\ reply' = Report(u, "not_connected", 0)
              /\ UNCHANGED <<tasks, events, nextEventId>>
       ELSE IF list = <<>>
         THEN /\ reply' = Report(u, "no_pending_tasks", 0)
              /\ UNCHANGED <<tasks, events, nextEventId>>
       ELSE /\ tasks' = [id \in DOMAIN tasks |->
                          IF \E i \in created : list[i] = id
                            THEN update_task_calendar_event(id, event_id(position(id)))[id]
                            ELSE tasks[id]]
            /\ events' = events \cup {[id |-> event_id(i), task |-> list[i], user |-> u] :
                                        i \in created}
            /\ nextEventId' = nextEventId + Cardinality(created)
            /\ reply' = SyncReport(u, Cardinality(created), Cardinality(attempted \ created))
    /\ UNCHANGED appBVars
    /\ \E refreshed \in {r \in BOOLEAN : r => (is_connected(u) /\ attempted # {})} :
         calendar_tokens' = get_credentials(u, refreshed)
    /\ UNCHANGED <<nextTaskId, reminders, noteVars, convVars, now, userVars, delete_prompts, complete_pc,
                   calendar_connected>>

StoreDatedTask == StoreTaskWith({NoDeadline, HoursPerDay})

\* both users have connected their calendars
InitCal ==
  /\ InitTasks
  /\ InitChat
  /\ InitB
  /\ calendar_tokens = [u \in Users |-> "tokens"]
  /\ calendar_connected = [u \in Users |-> TRUE]
  /\ events = {}
  /\ nextEventId = 1

NextCal ==
  \/ StoreDatedTask
  \/ disconnect_calendar
  \/ sync_tasks
  \/ complete_task

SpecCal == InitCal /\ [][NextCal]_vars

\* the calendar connection: the conversation, /disconnect_calendar and /sync
NextOauth ==
  \/ StoreDatedTask
  \/ connect_calendar
  \/ receive_oauth_code
  \/ calendar_cancel
  \/ oauth_code_text
  \/ disconnect_calendar
  \/ sync_tasks

SpecOauth == Init /\ [][NextOauth]_vars

\* a premium user with a connected calendar and about TaskListLimit pending tasks
ManyTasks == {TaskListLimit - 1, TaskListLimit, TaskListLimit + 1}
ManyOwner == PremiumUser

InitMany ==
  /\ InitChat
  /\ InitB
  /\ \E n \in ManyTasks :
       /\ tasks = [id \in 1..n |-> NewTask(ManyOwner, <<"T">>, "work", HoursPerDay)]
       /\ nextTaskId = n + 1
       /\ reminders = EmptyDict
  /\ calendar_tokens = [u \in Users |-> IF u = ManyOwner THEN "tokens" ELSE NoTokens]
  /\ calendar_connected = [u \in Users |-> u = ManyOwner]
  /\ events = {}
  /\ nextEventId = 1

NextMany ==
  \/ sync_tasks
  \/ complete_task

SpecMany == InitMany /\ [][NextMany]_vars

\* a /sync during which no calendar call fails
SyncSucceeds ==
  /\ sync_tasks
  /\ reply'.kind = "sync_complete"
  /\ reply'.failed = 0

(* ----------------------------- premium gates --------------------------- *)
MOOD_SELECT == "MOOD_SELECT"
ENERGY_SELECT == "ENERGY_SELECT"
CONTEXT_INPUT == "CONTEXT_INPUT"
BRAINSTORM_TOPIC == "BRAINSTORM_TOPIC"

GateFrame ==
  /\ UNCHANGED appBVars
  /\ UNCHANGED <<storeVars, noteVars, calVars, convVars, now, delete_prompts, complete_pc, cal_conv>>
  /\ UNCHANGED <<usersVars, slotVars, brain_conv>>

\* DatabaseManager.update_user_premium: writes the column premium
update_user_premium ==
  \E u \in Users, status \in BOOLEAN :
    /\ lastUpdate' = Command(u, "update_user_premium", IF status THEN "True" ELSE "False", 0)
    /\ IF UserRows(u) # {}
         THEN /\ premium' = [premium EXCEPT ![u] = status]
              /\ reply' = Report(u, "returned_true", 0)
         ELSE /\ UNCHANGED premium
              /\ reply' = Report(u, "returned_false", 0)
    /\ UNCHANGED <<premium_status, mood_conv, mood_logs, ai_calls>>
    /\ GateFrame

\* DatabaseManager.set_premium_status: writes the attribute premium_status
set_premium_status ==
  \E u \in Users, status \in BOOLEAN :
    /\ premium_status' = [premium_status EXCEPT ![u] = status]
    /\ lastUpdate' = Command(u, "set_premium_status", IF status THEN "True" ELSE "False", 0)
    /\ reply' = Report(u, "returned_true", 0)
    /\ UNCHANGED <<premium, mood_conv, mood_logs, ai_calls>>
    /\ GateFrame

\* /mood, the entry point of the mood conversation
log_mood ==
  \E u \in Users :
    /\ lastUpdate' = Command(u, "mood", "none", 0)
    /\ IF ~premium_status[u]
         THEN /\ reply' = Report(u, "upsell", 0)
              /\ mood_conv' = [mood_conv EXCEPT ![u] = END]
         ELSE /\ reply' = Report(u, "ask_mood", 0)
              /\ mood_conv' = [mood_conv EXCEPT ![u] = MOOD_SELECT]
    /\ UNCHANGED <<premium, premium_status, mood_logs, ai_calls>>
    /\ GateFrame

\* a button pressed in MOOD_SELECT
mood_selected ==
  \E u \in Users, cancelled \in BOOLEAN :
    /\ mood_conv[u] = MOOD_SELECT
    /\ lastUpdate' = CallbackQuery(u, "mood_", IF cancelled THEN "cancel" ELSE "happy", 0)
    /\ IF cancelled
         THEN /\ reply' = Report(u, "cancelled", 0)
              /\ mood_conv' = [mood_conv EXCEPT ![u] = END]
         ELSE /\ reply' = Report(u, "ask_energy", 0)
              /\ mood_conv' = [mood_conv EXCEPT ![u] = ENERGY_SELECT]
    /\ UNCHANGED <<premium, premium_status, mood_logs, ai_calls>>
    /\ GateFrame

\* a button pressed in ENERGY_SELECT
energy_selected ==
  \E u \in Users, cancelled \in BOOLEAN :
    /\ mood_conv[u] = ENERGY_SELECT
    /\ lastUpdate' = CallbackQuery(u, "energy_", IF cancelled THEN "cancel" ELSE "5", 0)
    /\ IF cancelled
         THEN /\ reply' = Report(u, "cancelled", 0)
              /\ mood_conv' = [mood_conv EXCEPT ![u] = END]
         ELSE /\ reply' = Report(u, "ask_context", 0)
              /\ mood_conv' = [mood_conv EXCEPT ![u] = CONTEXT_INPUT]
    /\ UNCHANGED <<premium, premium_status, mood_logs, ai_calls>>
    /\ GateFrame

\* the placeholder skip_context stores as the context
NoContext == "No context provided"
\* the row DatabaseManager.log_mood adds: a text was sent, or the context was skipped
MoodLog(mood, energy_level, skipped) ==
  [mood |-> mood, energy_level |-> energy_level,
   context |-> IF skipped THEN NoContext ELSE "ok"]

\* a text in CONTEXT_INPUT: the mood log is written
context_received ==
  \E u \in Users :
    /\ mood_conv[u] = CONTEXT_INPUT
    /\ Len(mood_logs[u]) < MaxMoodLogs
    /\ lastUpdate' = TextMessage(u, <<"o", "k">>)
    /\ mood_logs' = [mood_logs EXCEPT ![u] = Append(@, MoodLog("happy", 5, FALSE))]
    /\ reply' = Report(u, "mood_logged", 0)
    /\ mood_conv' = [mood_conv EXCEPT ![u] = END]
    /\ UNCHANGED <<premium, premium_status, ai_calls>>
    /\ GateFrame

\* /mood_history
view_mood_history ==
  \E u \in Users :
    /\ lastUpdate' = Command(u, "mood_history", "none", 0)
    /\ reply' = Report(u, IF ~premium_status[u] THEN "upsell" ELSE "mood_history", 0)
    /\ UNCHANGED userVars
    /\ GateFrame

\* /suggest and /dailyplan: the AI is asked when the user has pending tasks
AiCommand(u, command) ==
  /\ lastUpdate' = Command(u, command, "none", 0)
  /\ IF ~premium_status[u]
       THEN /\ reply' = Report(u, "upsell", 0)
            /\ UNCHANGED ai_calls
       ELSE IF get_user_tasks(u, "pending", TaskListLimit) = <<>>
         THEN /\ reply' = Report(u, "no_tasks", 0)
              /\ UNCHANGED ai_calls
         ELSE /\ ai_calls < MaxAiCalls
              /\ ai_calls' = ai_calls + 1
              /\ \E answered \in BOOLEAN :
                   reply' = Report(u, IF answered THEN command ELSE "unable", 0)
  /\ UNCHANGED <<premium, premium_status, mood_conv, mood_logs>>
  /\ GateFrame

suggest_task == \E u \in Users : AiCommand(u, "suggest")

daily_plan == \E u \in Users : AiCommand(u, "dailyplan")

\* /brainstorm, the entry point of the brainstorm conversation
brainstorm ==
  \E u \in Users :
    /\ lastUpdate' = Command(u, "brainstorm", "none", 0)
    /\ IF ~premium_status[u]
         THEN reply' = Report(u, "upsell", 0)
         ELSE reply' = Report(u, BRAINSTORM_TOPIC, 0)
    /\ brain_conv' = [brain_conv EXCEPT ![u] = IF premium_status[u] THEN BRAINSTORM_TOPIC ELSE END]
    /\ UNCHANGED <<premiumVars, cal_conv, usersVars, slotVars>>
    /\ UNCHANGED appBVars
    /\ UNCHANGED <<storeVars, noteVars, calVars, convVars, now, delete_prompts, complete_pc>>

\* /mood_insights
mood_insights_command ==
  \E u \in Users :
    /\ lastUpdate' = Command(u, "mood_insights", "none", 0)
    /\ reply' = Report(u, IF ~premium[u] THEN "upsell" ELSE "mood_insights", 0)
    /\ UNCHANGED userVars
    /\ GateFrame

\* the owner of the day's tasks has created one task less than the free
\* tier allows, or as many as it allows
TodayCounts == {FreeTierDailyTasks - 1, FreeTierDailyTasks}

InitGate ==
  /\ InitChat
  /\ InitCalendar
  /\ InitB
  /\ \E owner \in Users, n \in TodayCounts :
       /\ tasks = [id \in 1..n |-> NewTask(owner, <<"T">>, "work", NoDeadline)]
       /\ nextTaskId = n + 1
       /\ reminders = EmptyDict

NextGate ==
  \/ update_user_premium
  \/ set_premium_status
  \/ add_task_start
  \/ cancel_conversation

SpecGate == InitGate /\ [][NextGate]_vars

NextPremium ==
  \/ update_user_premium
  \/ set_premium_status
  \/ log_mood
  \/ mood_selected
  \/ energy_selected
  \/ context_received
  \/ view_mood_history
  \/ suggest_task
  \/ daily_plan
  \/ brainstorm
  \/ mood_insights_command

\* one user has a pending task, the other has none
InitPremium ==
  /\ InitChat
  /\ InitCalendar
  /\ InitB
  /\ \E owner \in Users :
       /\ tasks = [id \in {1} |-> NewTask(owner, <<"T">>, "work", NoDeadline)]
       /\ nextTaskId = 2
       /\ reminders = EmptyDict

SpecPremium == InitPremium /\ [][NextPremium]_vars


(* -------------------- the mood conversation in detail ------------------- *)
\* the seven moods of the keyboard of log_mood
Moods == {"happy", "calm", "stressed", "tired", "frustrated", "motivated", "neutral"}
\* the energy levels of the keyboard of mood_selected
EnergyLevels == 1..10

RECURSIVE replace(_, _, _)
\* str.replace(old, new): every occurrence of old, left to right
replace(s, old, new) ==
  IF Len(s) < Len(old) THEN s
  ELSE IF SubSeq(s, 1, Len(old)) = old
    THEN new \o replace(SubSeq(s, Len(old) + 1, Len(s)), old, new)
  ELSE SubSeq(s, 1, 1) \o replace(SubSeq(s, 2, Len(s)), old, new)

\* int(s) raises ValueError unless s is a run of digits (no callback data of
\* the bot has a sign, a blank or an underscore between digits)
is_int(s) == Len(s) > 0 /\ \A i \in 1..Len(s) : \E d \in DOMAIN DigitChars : DigitChars[d] = SubSeq(s, i, i)
RECURSIVE int(_)
int(s) ==
  IF Len(s) = 0 THEN 0
  ELSE 10 * int(SubSeq(s, 1, Len(s) - 1)) + DigitValue(SubSeq(s, Len(s), Len(s)))

get_mood_insight_peak_above_8(mood, energy) ==
  IF energy > 8
    THEN IF mood \in {"happy", "motivated", "calm"} THEN "peak condition" ELSE "good energy despite stress"
  ELSE IF energy >= 5
    THEN IF mood \in {"happy", "calm", "motivated"} THEN "steady work"
         ELSE IF mood = "stressed" THEN "break into smaller steps"
         ELSE "average energy"
  ELSE IF mood \in {"tired", "stressed", "frustrated"} THEN "rest is productive" ELSE "low energy"

\* MoodHandler._get_mood_insight: the message, named by its leading words
get_mood_insight(mood, energy) ==
  IF energy >= 8
    THEN IF mood \in {"happy", "motivated", "calm"} THEN "peak condition" ELSE "good energy despite stress"
  ELSE IF energy >= 5
    THEN IF mood \in {"happy", "calm", "motivated"} THEN "steady work"
         ELSE IF mood = "stressed" THEN "break into smaller steps"
         ELSE "average energy"
  ELSE IF mood \in {"tired", "stressed", "frustrated"} THEN "rest is productive" ELSE "low energy"

\* the buttons pressed while a mood is awaited: two of the mood keyboard, its
\* cancel button, and buttons of older messages (an energy keyboard, /tasks)
MoodPresses == {"mood_happy", "mood_stressed", "mood_cancel", "energy_5", "filter_all"}
\* the buttons pressed while an energy level is awaited
EnergyPresses == {"energy_3", "energy_10", "energy_cancel", "mood_tired", "priority_2"}

\* what the handlers of the mood conversation leave alone
MoodFrame ==
  /\ UNCHANGED appBVars
  /\ UNCHANGED <<storeVars, noteVars, calVars, conv, now, delete_prompts, complete_pc, cal_conv>>
  /\ UNCHANGED <<premium, premium_status, ai_calls, usersVars, slots_in, slots_out, brain_conv>>

\* a handler of the conversation raises: the conversation keeps its state
MoodRaises(u, error) ==
  /\ reply' = Report(u, error, 0)
  /\ UNCHANGED <<mood_conv, mood_logs, callVars>>

\* MoodHandler.mood_selected: CallbackQueryHandler without a pattern in MOOD_SELECT
MoodSelected ==
  \E u \in Users, data \in MoodPresses :
    /\ mood_conv[u] = MOOD_SELECT
    /\ lastUpdate' = CallbackQuery(u, data, "none", 0)
    /\ IF data = "mood_cancel"
         THEN /\ reply' = Report(u, "cancelled", 0)
              /\ mood_conv' = [mood_conv EXCEPT ![u] = END]
              /\ UNCHANGED user_data
         ELSE /\ user_data' = [user_data EXCEPT ![u] = DictSet(@, "mood", replace(data, "mood_", ""))]
              /\ reply' = Report(u, "ask_energy", 0)
              /\ mood_conv' = [mood_conv EXCEPT ![u] = ENERGY_SELECT]
    /\ UNCHANGED <<mood_logs, callVars>>
    /\ MoodFrame

\* MoodHandler.energy_selected: CallbackQueryHandler without a pattern in ENERGY_SELECT
EnergySelected ==
  \E u \in Users, data \in EnergyPresses :
    /\ mood_conv[u] = ENERGY_SELECT
    /\ lastUpdate' = CallbackQuery(u, data, "none", 0)
    /\ IF data = "energy_cancel"
         THEN /\ reply' = Report(u, "cancelled", 0)
              /\ mood_conv' = [mood_conv EXCEPT ![u] = END]
              /\ UNCHANGED <<user_data, mood_logs, callVars>>
       ELSE IF ~is_int(replace(data, "energy_", ""))
         THEN MoodRaises(u, "ValueError") /\ UNCHANGED user_data
       ELSE /\ user_data' = [user_data EXCEPT ![u] = DictSet(@, "energy", int(replace(data, "energy_", "")))]
            /\ IF ~DictHas(user_data[u], "mood")
                 THEN MoodRaises(u, "KeyError")
                 ELSE /\ reply' = Report(u, "ask_context", 0)
                      /\ mood_conv' = [mood_conv EXCEPT ![u] = CONTEXT_INPUT]
                      /\ UNCHANGED <<mood_logs, callVars>>
    /\ MoodFrame

\* context_received (a text) and skip_context (/skip) in CONTEXT_INPUT: the
\* row is written, the insight sent and context.user_data cleared
MoodSaved(u, skipped) ==
  /\ mood_conv[u] = CONTEXT_INPUT
  /\ lastUpdate' = (IF skipped THEN Command(u, "skip", "none", 0) ELSE TextMessage(u, <<"o", "k">>))
  /\ IF ~DictHas(user_data[u], "mood") \/ ~DictHas(user_data[u], "energy")
       THEN MoodRaises(u, "KeyError") /\ UNCHANGED user_data
       ELSE /\ Len(mood_logs[u]) < MaxMoodLogs
            /\ mood_logs' = [mood_logs EXCEPT ![u] =
                               Append(@, MoodLog(user_data[u]["mood"], user_data[u]["energy"], skipped))]
            /\ request' = [op |-> "get_mood_insight", user |-> u,
                           mood |-> user_data[u]["mood"], energy |-> user_data[u]["energy"]]
            /\ response' = <<get_mood_insight(user_data[u]["mood"], user_data[u]["energy"])>>
            /\ reply' = Report(u, "mood_logged", 0)
            /\ user_data' = [user_data EXCEPT ![u] = EmptyDict]
            /\ mood_conv' = [mood_conv EXCEPT ![u] = END]
  /\ MoodFrame

ContextReceived == \E u \in Users : MoodSaved(u, FALSE)
SkipContext == \E u \in Users : MoodSaved(u, TRUE)

\* MoodHandler.cancel: /cancel in CONTEXT_INPUT, and the fallback of the other states
MoodCancel ==
  \E u \in Users :
    /\ mood_conv[u] # END
    /\ lastUpdate' = Command(u, "cancel", "none", 0)
    /\ reply' = Report(u, "cancelled", 0)
    /\ user_data' = [user_data EXCEPT ![u] = EmptyDict]
    /\ mood_conv' = [mood_conv EXCEPT ![u] = END]
    /\ UNCHANGED <<mood_logs, callVars>>
    /\ MoodFrame

\* _get_mood_insight called for a mood and an energy level of the keyboards
GetMoodInsight ==
  \E u \in Users, mood \in Moods, energy \in EnergyLevels :
    /\ request' = [op |-> "get_mood_insight", user |-> u, mood |-> mood, energy |-> energy]
    /\ response' = <<get_mood_insight(mood, energy)>>
    /\ lastUpdate' = NoUpdate
    /\ reply' = NoReply
    /\ UNCHANGED <<mood_conv, mood_logs, user_data>>
    /\ MoodFrame

\* set_premium_status has set the attribute premium_status of one user
InitMood ==
  /\ InitTasks
  /\ InitCalendar
  /\ InitB
  /\ now = 0
  /\ InitUsersWith(<<NewUser(1), NewUser(2)>>, [u \in Users |-> u = PremiumUser])
  /\ premium_status = [u \in Users |-> u = PremiumUser]
  /\ InitConversations
  /\ NoSlotQuery
  /\ InitNotes

NextMood ==
  \/ log_mood
  \/ MoodSelected
  \/ EnergySelected
  \/ ContextReceived
  \/ SkipContext
  \/ MoodCancel

SpecMood == InitMood /\ [][NextMood]_vars

\* the insight asked for every mood and energy level of the keyboards
SpecInsight == Init /\ [][GetMoodInsight]_vars

(* ----------------------- brainstorm conversation ------------------------ *)
IDEA_SELECTION == "IDEA_SELECTION"
IDEA_ACTION == "IDEA_ACTION"

\* generate_ideas(count=5); idea_selected accepts the numbers 1..5
IdeaCount == 5

\* what the brainstorm handlers keep in context.user_data
BrainstormKeys == {"brainstorm_topic", "brainstorm_ideas", "selected_idea"}

\* the ideas the service answered with: none, fewer than asked for, or all
IdeaLists == {<<>>, <<"idea 1">>, [i \in 1..IdeaCount |-> "idea"]}

\* the texts sent while an idea is to be chosen: numbers and something else
SelectionTexts == {"1", "5", "9", "two"}
Selection(txt) == IF txt = "1" THEN 1 ELSE IF txt = "5" THEN 5 ELSE IF txt = "9" THEN 9 ELSE 0

IdeaActions == {"back_ideas", "expand_idea", "action_plan", "save_note", "save_task"}

BrainFrame ==
  /\ UNCHANGED <<premiumVars, cal_conv, usersVars, slotVars>>
  /\ UNCHANGED appBVars
  /\ UNCHANGED <<storeVars, noteVars, calVars, conv, now, delete_prompts, complete_pc>>

\* BRAINSTORM_TOPIC: MessageHandler(TEXT & ~COMMAND)
topic_received ==
  \E u \in Users, result \in IdeaLists :
    /\ brain_conv[u] = BRAINSTORM_TOPIC
    /\ lastUpdate' = TextMessage(u, <<"t">>)
    /\ IF result = <<>>
         THEN /\ user_data' = [user_data EXCEPT ![u] = DictSet(@, "brainstorm_topic", "topic")]
              /\ reply' = Report(u, "unable", 0)
              /\ brain_conv' = [brain_conv EXCEPT ![u] = END]
         ELSE /\ user_data' = [user_data EXCEPT ![u] =
                                 DictSet(DictSet(@, "brainstorm_topic", "topic"),
                                         "brainstorm_ideas", result)]
              /\ reply' = Report(u, IDEA_SELECTION, 0)
              /\ brain_conv' = [brain_conv EXCEPT ![u] = IDEA_SELECTION]
    /\ BrainFrame

\* IDEA_SELECTION: MessageHandler(TEXT & ~COMMAND)
idea_selected ==
  \E u \in Users, txt \in SelectionTexts :
    LET selection == Selection(txt)
        held == user_data_get(u, "brainstorm_ideas", <<>>)
    IN
    /\ brain_conv[u] = IDEA_SELECTION
    /\ lastUpdate' = TextMessage(u, <<txt>>)
    /\ IF ~(1 <= selection /\ selection <= IdeaCount)
         THEN /\ reply' = Report(u, "send_a_number", 0)
              /\ UNCHANGED <<brain_conv, user_data>>
       ELSE IF held = <<>>
         THEN /\ reply' = Report(u, "session_expired", 0)
              /\ brain_conv' = [brain_conv EXCEPT ![u] = END]
              /\ UNCHANGED user_data
       ELSE IF selection > Len(held)
         THEN \* ideas[selection - 1] raises IndexError: the state is kept
              /\ reply' = Report(u, "raised", 0)
              /\ UNCHANGED <<brain_conv, user_data>>
       ELSE /\ user_data' = [user_data EXCEPT ![u] = DictSet(@, "selected_idea", held[selection])]
            /\ reply' = Report(u, IDEA_ACTION, selection)
            /\ brain_conv' = [brain_conv EXCEPT ![u] = IDEA_ACTION]
    /\ BrainFrame

\* IDEA_ACTION: CallbackQueryHandler without a pattern
idea_action ==
  \E u \in Users, action \in IdeaActions, answered \in BOOLEAN :
    /\ brain_conv[u] = IDEA_ACTION
    /\ lastUpdate' = CallbackQuery(u, action, "none", 0)
    /\ UNCHANGED user_data
    /\ IF ~DictHas(user_data[u], "selected_idea")
         THEN /\ reply' = Report(u, "session_expired", 0)
              /\ brain_conv' = [brain_conv EXCEPT ![u] = END]
       ELSE IF action = "back_ideas"
         THEN /\ reply' = Report(u, IDEA_SELECTION, 0)
              /\ brain_conv' = [brain_conv EXCEPT ![u] = IDEA_SELECTION]
       ELSE IF action \in {"expand_idea", "action_plan"}
         THEN /\ reply' = Report(u, IF answered THEN action ELSE "unable", 0)
              /\ UNCHANGED brain_conv
       ELSE \* save_note calls create_note without its title, save_task calls
            \* create_task, which DatabaseManager does not have: both raise
            /\ reply' = Report(u, "raised", 0)
            /\ UNCHANGED brain_conv
    /\ BrainFrame

\* /done, registered in IDEA_SELECTION and IDEA_ACTION
done_brainstorming ==
  \E u \in Users :
    /\ brain_conv[u] \in {IDEA_SELECTION, IDEA_ACTION}
    /\ lastUpdate' = Command(u, "done", "none", 0)
    /\ reply' = Report(u, "session_complete", 0)
    /\ user_data' = [user_data EXCEPT ![u] = EmptyDict]
    /\ brain_conv' = [brain_conv EXCEPT ![u] = END]
    /\ BrainFrame

\* /cancel, registered in every state and as the fallback
brainstorm_cancel ==
  \E u \in Users :
    /\ brain_conv[u] # END
    /\ lastUpdate' = Command(u, "cancel", "none", 0)
    /\ reply' = Report(u, "cancelled", 0)
    /\ user_data' = [user_data EXCEPT ![u] = EmptyDict]
    /\ brain_conv' = [brain_conv EXCEPT ![u] = END]
    /\ BrainFrame

\* /done while the topic is awaited: BRAINSTORM_TOPIC registers /cancel and
\* plain text only and the fallbacks hold /cancel only, so nothing handles it
done_while_topic_awaited ==
  \E u \in Users :
    /\ brain_conv[u] = BRAINSTORM_TOPIC
    /\ lastUpdate' = Command(u, "done", "none", 0)
    /\ reply' = NoReply
    /\ UNCHANGED <<brain_conv, user_data>>
    /\ BrainFrame

NextBrain ==
  \/ set_premium_status
  \/ brainstorm
  \/ topic_received
  \/ idea_selected
  \/ idea_action
  \/ done_brainstorming
  \/ brainstorm_cancel
  \/ done_while_topic_awaited

SpecBrain == Init /\ [][NextBrain]_vars

(* ------------------------------ Note Service --------------------------- *)
\* the characters of the model's texts that the class \w of re matches
WordChars == {"a", "b", "c", "h", "u", "w", "x", "A", "B", "C", "1", "_"}

\* the length of the longest prefix of txt made of word characters
WordRun(txt) ==
  IF \A i \in DOMAIN txt : txt[i] \in WordChars THEN Len(txt)
  ELSE (CHOOSE i \in DOMAIN txt : txt[i] \notin WordChars /\ \A j \in 1..(i - 1) : txt[j] \in WordChars) - 1

RECURSIVE findall_hashtags(_)
\* re.findall(r'#(\w+)', content): the matches from left to right, each the
\* longest run of word characters after a '#'
findall_hashtags(content) ==
  IF content = <<>> THEN <<>>
  ELSE IF Head(content) = "#" /\ WordRun(Tail(content)) > 0
    THEN <<SubSeq(content, 2, WordRun(Tail(content)) + 1)>>
           \o findall_hashtags(SubSeq(content, WordRun(Tail(content)) + 2, Len(content)))
  ELSE findall_hashtags(Tail(content))

ToSet(list) == {list[i] : i \in DOMAIN list}

\* the lists that hold every element of S once: list(set(...)) fixes no order
Orders(S) == {order \in [1..Cardinality(S) -> S] : \A i, j \in 1..Cardinality(S) : order[i] = order[j] => i = j}

\* the matches as found, duplicates kept
extract_tags_keeps_duplicates(content) == {findall_hashtags(content)}

\* NoteService._extract_tags: the lists it may return
extract_tags(content) == Orders(ToSet(findall_hashtags(content)))

\* NoteService._format_content
format_content(content) == strip(content)

\* the contents of notes: no hashtag, one hashtag twice, two hashtags, a '#'
\* that no word follows, hashtags inside a word and at a comma
NOTE_AB == <<" ", "a", "b", " ">>
NOTE_DUP == <<"#", "w", " ", "#", "w">>
NOTE_TWO == <<"#", "w", " ", "#", "u">>
NOTE_BARE == <<"#", " ", "w">>
NOTE_MID == <<"a", "#", "w", ",", "#", "u", "#">>
NoteContents == {NOTE_AB, NOTE_DUP, NOTE_TWO, NOTE_BARE, NOTE_MID}

\* explicit tag lists: none, one, two, a repeated tag, a tag that holds a
\* comma, the empty tag
TagLists ==
  {<<>>, <<<<"w">>>>, <<<<"w">>, <<"u">>>>, <<<<"w">>, <<"w">>>>, <<<<"w", ",", "u">>>>, <<<<>>>>}

NoteFrame ==
  /\ lastUpdate' = NoUpdate
  /\ reply' = NoReply
  /\ UNCHANGED appBVars
  /\ UNCHANGED <<storeVars, calVars, convVars, now, delete_prompts, complete_pc>>
  /\ UNCHANGED <<premiumVars, cal_conv, brain_conv, usersVars, slots_in, slots_out>>

\* NoteService._extract_tags called on a text
ExtractTags ==
  \E content \in NoteContents : \E tags \in extract_tags(content) :
    /\ request' = [op |-> "extract_tags", user |-> 0, content |-> content]
    /\ response' = tags
    /\ UNCHANGED noteVars
    /\ NoteFrame

\* NoteService.create_note: tags are taken from the content when none are
\* given; the mapping returned holds the stored tags, split
NoteServiceCreate ==
  \E u \in Users, content \in {NOTE_AB, NOTE_TWO}, given \in TagLists \cup {None} :
    \E tags \in (IF given = None THEN extract_tags(content) ELSE {given}) :
      /\ nextNoteId <= MaxNotes
      /\ notes' = create_note(u, <<"N">>, format_content(content), "None", tags)
      /\ nextNoteId' = nextNoteId + 1
      /\ request' = [op |-> "create_note", user |-> u, content |-> content, tags |-> given]
      /\ response' = [id |-> nextNoteId, tags |-> tags_list(notes'[nextNoteId].tags)]
      /\ NoteFrame

\* NoteService.get_note
NoteServiceGet ==
  \E u \in Users, note_id \in NoteIdArgs :
    /\ request' = [op |-> "get_note", user |-> u, note_id |-> note_id]
    /\ response' = IF get_note(note_id, u) = NoNote
                     THEN [id |-> NoNote, tags |-> <<>>]
                     ELSE [id |-> note_id, tags |-> tags_list(notes[note_id].tags)]
    /\ UNCHANGED noteVars
    /\ NoteFrame

NextTags ==
  \/ ExtractTags
  \/ NoteServiceCreate
  \/ NoteServiceGet

SpecTags == Init /\ [][NextTags]_vars

(* ------------------------------ note search ---------------------------- *)
\* limit=20 of search_notes; results[:10] of the /searchnotes handler
SearchLimit == 20
SearchShown == 10

\* str.lower() and the case folding of LIKE, on the model's characters
lower_char(c) == IF c = "A" THEN "a" ELSE IF c = "B" THEN "b" ELSE IF c = "C" THEN "c" ELSE c
lower(txt) == [i \in DOMAIN txt |-> lower_char(txt[i])]

\* txt[at:].startswith(pat)
StartsAt(txt, pat, at) ==
  /\ at + Len(pat) - 1 <= Len(txt)
  /\ \A k \in DOMAIN pat : txt[at + k - 1] = pat[k]

\* pat in txt
contains(txt, pat) == \E at \in 1..(Len(txt) + 1) : StartsAt(txt, pat, at)

RECURSIVE count_from(_, _, _)
count_from(txt, pat, at) ==
  IF at > Len(txt) + 1 THEN 0
  ELSE IF StartsAt(txt, pat, at)
    THEN 1 + count_from(txt, pat, at + (IF pat = <<>> THEN 1 ELSE Len(pat)))
  ELSE count_from(txt, pat, at + 1)

\* txt.count(pat): the occurrences that do not overlap
count(txt, pat) == count_from(txt, pat, 1)

RECURSIVE like(_, _)
\* column LIKE pattern in SQLite: '%' stands for any text, '_' for any one
\* character, letters match in either case; NULL matches nothing
like(column, pattern) ==
  IF column = NULL THEN FALSE
  ELSE IF pattern = <<>> THEN column = <<>>
  ELSE IF Head(pattern) = "%"
    THEN like(column, Tail(pattern)) \/ (column # <<>> /\ like(Tail(column), pattern))
  ELSE /\ column # <<>>
       /\ Head(pattern) = "_" \/ lower_char(Head(pattern)) = lower_char(Head(column))
       /\ like(Tail(column), Tail(pattern))

\* f"%{query}%"
search_filter(query) == <<"%">> \o query \o <<"%">>

RECURSIVE ByUpdated(_)
\* order_by(Note.updated_at.desc()); rows updated at the same time come in
\* the order of their ids
ByUpdated(ids) ==
  IF ids = {} THEN <<>>
  ELSE LET first == CHOOSE x \in ids :
                      \A y \in ids : \/ notes[y].updated_at < notes[x].updated_at
                                     \/ (notes[y].updated_at = notes[x].updated_at /\ x <= y)
       IN <<first>> \o ByUpdated(ids \ {first})

\* DatabaseManager.search_notes (the definition at line 291, which replaces
\* the one at line 211): the filters are applied one after the other
db_search_notes(user_id, query, category, tags, limit) ==
  FirstRows(ByUpdated({id \in DOMAIN notes :
      /\ notes[id].user_id = user_id
      /\ query # <<>> =>
           \/ like(notes[id].title, search_filter(query))
           \/ like(notes[id].content, search_filter(query))
      /\ category \notin {"None", ""} => notes[id].category = category
      /\ (tags # None /\ tags # <<>>) =>
           \A i \in DOMAIN tags : like(notes[id].tags, search_filter(tags[i]))}), limit)

\* NoteService._calculate_relevance
calculate_relevance(note, query, tags) ==
  (IF lower(query) = lower(note.title) THEN 10
   ELSE IF contains(lower(note.title), lower(query)) THEN 5 ELSE 0)
  + count(lower(note.content), lower(query))
  + (IF tags # None /\ tags # <<>> /\ note.tags # NULL /\ note.tags # <<>>
       THEN 3 * Cardinality({i \in DOMAIN tags : tags[i] \in ToSet(split(note.tags, ","))})
       ELSE 0)

RECURSIVE sort_by_score(_)
\* list.sort(key=score, reverse=True): stable, equal scores keep their order
sort_by_score(scored) ==
  IF scored = <<>> THEN <<>>
  ELSE LET top == CHOOSE i \in DOMAIN scored :
                    /\ \A j \in DOMAIN scored : scored[j].relevance <= scored[i].relevance
                    /\ \A j \in 1..(i - 1) : scored[j].relevance < scored[i].relevance
       IN <<scored[top]>> \o sort_by_score([k \in 1..(Len(scored) - 1) |->
                                              IF k < top THEN scored[k] ELSE scored[k + 1]])

\* NoteService.search_notes: the id and the relevance of each result
service_search_notes(user_id, query, tags, limit) ==
  LET found == db_search_notes(user_id, query, "None", tags, limit) IN
  sort_by_score([i \in DOMAIN found |->
                   [id |-> found[i], relevance |-> calculate_relevance(notes[found[i]], query, tags)]])

\* the rows a notes table may hold; the timestamps are hours before the start
SearchRows ==
  [{1} -> {[user_id |-> 1, title |-> <<"a", "b">>, content |-> <<"x">>, category |-> "None",
            tags |-> NULL, created_at |-> 0 - 4, updated_at |-> 0 - 1]}]
  \cup [{2} -> {[user_id |-> 1, title |-> <<"x", "A", "B">>, content |-> <<"c">>, category |-> "None",
                 tags |-> <<"w">>, created_at |-> 0 - 4, updated_at |-> 0 - 3]}]
  \cup [{3} -> {[user_id |-> 1, title |-> <<"c">>, content |-> <<"A", "B", " ", "a", "b">>,
                 category |-> "None", tags |-> <<"w", ",", "u">>, created_at |-> 0 - 4, updated_at |-> 0 - 2]}]
  \cup [{4} -> {[user_id |-> 2, title |-> <<"a", "b">>, content |-> <<"a", "b">>, category |-> "None",
                 tags |-> <<"w">>, created_at |-> 0 - 4, updated_at |-> 0 - 1]}]
  \cup [{5} -> {[user_id |-> 1, title |-> <<"c">>, content |-> <<"x">>, category |-> "None",
                 tags |-> <<"h", "w">>, created_at |-> 0 - 4, updated_at |-> 0 - 4]}]

\* the notes tables of the search: any of the five rows, under their ids
SearchTables ==
  {[id \in ids |-> (CHOOSE row \in SearchRows : DOMAIN row = {id})[id]] : ids \in SUBSET (1..5)}

SearchQueries == {<<"a", "b">>, <<"a", "_">>, <<"c">>, <<>>}
SearchTags == {None, <<<<"w">>>>, <<<<"w">>, <<"u">>>>}

\* context.args of /searchnotes: words, those that start with '#' name tags
SearchArgs ==
  {<<<<"a", "b">>>>, <<<<"#", "w">>>>, <<<<"a", "b">>, <<"#", "w">>>>, <<<<"A", "B">>, <<"c">>>>}

RECURSIVE select_words(_, _)
\* [word for word in args if word.startswith('#') == hashed]
select_words(args, hashed) ==
  IF args = <<>> THEN <<>>
  ELSE IF (Head(args) # <<>> /\ Head(args)[1] = "#") = hashed
    THEN <<Head(args)>> \o select_words(Tail(args), hashed)
  ELSE select_words(Tail(args), hashed)

SearchFrame ==
  /\ lastUpdate' = NoUpdate
  /\ UNCHANGED appBVars
  /\ UNCHANGED <<storeVars, noteVars, calVars, convVars, now, delete_prompts, complete_pc>>
  /\ UNCHANGED <<premiumVars, cal_conv, brain_conv, usersVars, slots_in, slots_out>>

\* DatabaseManager.search_notes called with a text and a tag list
DbSearchNotes ==
  \E u \in Users, query \in SearchQueries, tags \in SearchTags :
    /\ request' = [op |-> "db.search_notes", user |-> u, query |-> query, tags |-> tags]
    /\ response' = db_search_notes(u, query, "None", tags, SearchLimit)
    /\ reply' = NoReply
    /\ SearchFrame

\* NoteService.search_notes called with a text and a tag list
NoteServiceSearch ==
  \E u \in Users, query \in SearchQueries, tags \in SearchTags :
    /\ request' = [op |-> "service.search_notes", user |-> u, query |-> query, tags |-> tags]
    /\ response' = service_search_notes(u, query, tags, SearchLimit)
    /\ reply' = NoReply
    /\ SearchFrame

\* /searchnotes <words>: the handler of NotesHandler
search_notes_command ==
  \E u \in Users, args \in SearchArgs :
    LET hashed == select_words(args, TRUE)
        tags == [i \in DOMAIN hashed |-> Tail(hashed[i])]
        search_text == join(select_words(args, FALSE), " ")
    IN
    /\ request' = [op |-> "service.search_notes", user |-> u, query |-> search_text,
                   tags |-> IF tags # <<>> THEN tags ELSE None]
    /\ response' = service_search_notes(u, search_text, IF tags # <<>> THEN tags ELSE None, SearchLimit)
    /\ reply' = Report(u, IF response' = <<>> THEN "no_notes_found" ELSE "search_results",
                       IF Len(response') < SearchShown THEN Len(response') ELSE SearchShown)
    /\ SearchFrame

InitSearch ==
  /\ InitTasks
  /\ InitCalendar
  /\ InitB
  /\ InitKnownUsers
  /\ NoSlotQuery
  /\ notes \in SearchTables
  /\ nextNoteId = 6

NextSearch ==
  \/ DbSearchNotes
  \/ NoteServiceSearch
  \/ search_notes_command

SpecSearch == InitSearch /\ [][NextSearch]_vars

(* -------------- Analytics Service: streak and achievements ------------- *)
\* the streak at which the loop of _calculate_streak gives up
StreakCap == 365
\* the histories tried have a task on any of the days today .. MaxRecentDays days ago
MaxRecentDays == 3

\* datetime.utcnow().date(): the calendar day of a time in hours
date(t) == t \div HoursPerDay
\* datetime.combine(d, datetime.min.time()): the first hour of day d
combine(d) == d * HoursPerDay
\* min(a, b) of Python
min(a, b) == IF a < b THEN a ELSE b

\* the rows the two equality filters of the query of _calculate_streak leave,
\* each with its completed_at (a NULL completed_at compares as unknown and
\* drops the row whatever the day)
completed_rows(user_id) ==
  {<<i, tasks[i].completed_at>> :
     i \in {j \in DOMAIN tasks : /\ tasks[j].user_id = user_id
                                 /\ tasks[j].status = "completed"
                                 /\ tasks[j].completed_at # NoTime}}

\* the count() of that query for one day
completed_on(rows, current_date) ==
  Cardinality({r \in rows : /\ r[2] >= combine(current_date)
                            /\ r[2] < combine(current_date + 1)})

\* one pass through the body of the while loop of _calculate_streak
streak_step(rows, s) ==
  IF completed_on(rows, s.current_date) > 0
    THEN [streak |-> s.streak + 1, current_date |-> s.current_date - 1,
          done |-> s.streak + 1 > StreakCap]
    ELSE [s EXCEPT !.done = TRUE]

RECURSIVE streak_loop(_, _, _)
\* the while loop run from s for up to n passes, or until it breaks
streak_loop(rows, s, n) ==
  IF s.done THEN s
  ELSE IF n = 1 THEN streak_step(rows, s)
  ELSE streak_loop(rows, streak_loop(rows, s, n \div 2), n - (n \div 2))

\* the loop entered with streak = 0 at current_date; it breaks within StreakCap + 1 passes
streak_from(rows, current_date) ==
  streak_loop(rows, [streak |-> 0, current_date |-> current_date, done |-> FALSE],
              StreakCap + 1).streak

calculate_streak_from_yesterday(user_id) ==
  IF completed_on(completed_rows(user_id), date(now)) > 0
    THEN streak_from(completed_rows(user_id), date(now))
    ELSE streak_from(completed_rows(user_id), date(now) - 1)

\* AnalyticsService._calculate_streak
calculate_streak(user_id) == streak_from(completed_rows(user_id), date(now))

\* the milestone ladders of get_achievements: target and title
task_milestones ==
  <<[count |-> 1, title |-> "First Task"], [count |-> 10, title |-> "Task Warrior"],
    [count |-> 50, title |-> "Productivity Master"], [count |-> 100, title |-> "Century Club"],
    [count |-> 500, title |-> "Legendary"]>>
note_milestones ==
  <<[count |-> 1, title |-> "Note Taker"], [count |-> 25, title |-> "Knowledge Builder"],
    [count |-> 100, title |-> "Brain Builder"]>>
streak_milestones ==
  <<[count |-> 3, title |-> "On Fire"], [count |-> 7, title |-> "Unstoppable"],
    [count |-> 30, title |-> "Consistency King"]>>

achievement_uncapped(milestone, type, have) ==
  [title |-> milestone.title, unlocked |-> have >= milestone.count,
   progress |-> have, target |-> milestone.count, type |-> type]

\* the dictionary appended for one milestone, the user having `have`
achievement(milestone, type, have) ==
  [title |-> milestone.title, unlocked |-> have >= milestone.count,
   progress |-> min(have, milestone.count), target |-> milestone.count, type |-> type]

\* the three loops of get_achievements over the counts read at its start
achievements(completed_count, note_count, streak) ==
  [i \in DOMAIN task_milestones |-> achievement(task_milestones[i], "task", completed_count)]
    \o [i \in DOMAIN note_milestones |-> achievement(note_milestones[i], "note", note_count)]
    \o [i \in DOMAIN streak_milestones |-> achievement(streak_milestones[i], "streak", streak)]

\* session.query(Task).filter_by(user_id=user_id, status='completed').count()
completed_count(user_id) ==
  Cardinality({i \in DOMAIN tasks : tasks[i].user_id = user_id /\ tasks[i].status = "completed"})
\* session.query(Note).filter_by(user_id=user_id).count()
note_count(user_id) == Cardinality({i \in DOMAIN notes : notes[i].user_id = user_id})

\* AnalyticsService.get_achievements
get_achievements(user_id) ==
  achievements(completed_count(user_id), note_count(user_id), calculate_streak(user_id))

StatsFrame ==
  /\ lastUpdate' = NoUpdate
  /\ UNCHANGED appBVars
  /\ UNCHANGED <<storeVars, noteVars, calVars, convVars, now, delete_prompts, complete_pc>>
  /\ UNCHANGED <<premiumVars, cal_conv, brain_conv, usersVars, slots_in, slots_out>>

\* _calculate_streak called for a user (get_user_overview reports its result)
CalculateStreak ==
  \E u \in Users :
    /\ request' = [op |-> "calculate_streak", user |-> u]
    /\ response' = <<calculate_streak(u)>>
    /\ reply' = NoReply
    /\ StatsFrame

\* AnalyticsService.get_achievements called for a user
GetAchievements ==
  \E u \in Users :
    /\ request' = [op |-> "get_achievements", user |-> u]
    /\ response' = get_achievements(u)
    /\ reply' = NoReply
    /\ StatsFrame

\* /achievements: the handler reports how many milestones are unlocked
achievements_command ==
  \E u \in Users :
    /\ request' = [op |-> "get_achievements", user |-> u]
    /\ response' = get_achievements(u)
    /\ reply' = Report(u, "achievements",
                       Cardinality({i \in DOMAIN response' : response'[i].unlocked}))
    /\ StatsFrame

\* the day the histories end at, late enough for a streak beyond the cap
Today == StreakCap + 10
\* every count one below a target of the ladder, and the target
Boundaries(ladder) ==
  {ladder[i].count - 1 : i \in DOMAIN ladder} \cup {ladder[i].count : i \in DOMAIN ladder}

\* a task of the user completed at time t, and one still pending
CompletedTask(user_id, t) ==
  [user_id |-> user_id, title |-> <<"T">>, category |-> "work", priority |-> 0,
   deadline |-> NoDeadline, status |-> "completed", created_at |-> t,
   completed_at |-> t, calendar_event_id |-> NoEvent]
PendingTask(user_id, t) ==
  [CompletedTask(user_id, t) EXCEPT !.status = "pending", !.completed_at = NoTime]

\* user 1 completed a task on each of the days in `days` (counted back from
\* Today) and left one pending on the others; user 2 completed one yesterday
RecentTable(days, hour) ==
  [i \in 1..(MaxRecentDays + 2) |->
     IF i = MaxRecentDays + 2 THEN CompletedTask(2, combine(Today - 1) + hour)
     ELSE IF (i - 1) \in days THEN CompletedTask(1, combine(Today - (i - 1)) + hour)
     ELSE PendingTask(1, combine(Today - (i - 1)) + hour)]
\* user 1 completed one task on each of the latest n days
RunTable(n, hour) == [i \in 1..n |-> CompletedTask(1, combine(Today - (i - 1)) + hour)]
\* user 1 completed n tasks today
PileTable(n, hour) == [i \in 1..n |-> CompletedTask(1, combine(Today) + hour)]

DayHours == {0, HoursPerDay - 1}
RecentTables ==
  {RecentTable(days, hour) : days \in SUBSET (0..MaxRecentDays), hour \in DayHours}
\* the histories that reach a milestone of the streak or task ladder, or the cap
LongTables ==
  {RunTable(n, 0) : n \in Boundaries(streak_milestones) \cup ((StreakCap - 1)..(StreakCap + 2))}
    \cup {PileTable(n, HoursPerDay - 1) : n \in Boundaries(task_milestones)}

\* user 1 has written n notes and user 2 one
NoteTable(n) ==
  [i \in 1..(n + 1) |->
     [user_id |-> IF i <= n THEN 1 ELSE 2, title |-> <<"N">>, content |-> "draft",
      category |-> "None", tags |-> NULL, created_at |-> 0, updated_at |-> 0]]
NoteTables == {NoteTable(n) : n \in Boundaries(note_milestones)}

InitStats ==
  /\ now \in {combine(Today) + hour : hour \in DayHours}
  /\ InitUsersWith(<<NewUser(1), NewUser(2)>>, [u \in Users |-> u = PremiumUser])
  /\ InitSessions
  /\ NoSlotQuery
  /\ InitCalendar
  /\ InitB
  /\ \/ tasks \in RecentTables /\ notes \in NoteTables
     \/ tasks \in LongTables /\ notes = NoteTable(0)
  /\ nextTaskId = Len(tasks) + 1
  /\ reminders = EmptyDict
  /\ nextNoteId = Len(notes) + 1

NextStats ==
  \/ CalculateStreak
  \/ GetAchievements
  \/ achievements_command

SpecStats == InitStats /\ [][NextStats]_vars

(* ------------- the Database Manager's operations when storage fails ----- *)
\* where the storage layer raises during a call: nowhere, in the query that
\* looks the row up, in session.commit(), or in a statement after the commit
Faults == {"none", "query", "commit", "after_commit"}

\* the statements of the try block up to and including the commit took effect
committed(fault) == fault \in {"none", "after_commit"}

\* the call of operation op by a request of user u, the fault met and what
\* the caller got: lastUpdate names the call, reply the result
DbCall(u, op, fault, result, id) ==
  /\ lastUpdate' = Command(u, op, fault, id)
  /\ reply' = Report(u, IF fault = "none" THEN "returned" ELSE result, id)

DbFrame ==
  /\ UNCHANGED appBVars
  /\ UNCHANGED <<convVars, now, delete_prompts, complete_pc, events, nextEventId>>

\* add_task: the statement after the commit is `task_id = task.id`
FaultyAddTask ==
  \E u \in Users, fault \in {"none", "commit", "after_commit"} :
    /\ nextTaskId <= MaxTasks
    /\ IF committed(fault)
         THEN /\ tasks' = add_task(u, <<"T">>, "work", NoDeadline)
              /\ nextTaskId' = nextTaskId + 1
              /\ UNCHANGED reminders
         ELSE UNCHANGED storeVars
    /\ DbCall(u, "db.add_task", fault, "returned_none", nextTaskId)
    /\ UNCHANGED <<noteVars, userVars, calendar_tokens, calendar_connected>>
    /\ DbFrame

FaultyCompleteTask ==
  \E u \in Users, id \in TaskIdArgs, fault \in {"none", "query", "commit"} :
    /\ tasks' = (IF committed(fault) THEN db_complete_task(id, u) ELSE tasks)
    /\ DbCall(u, "db.complete_task", fault, "returned_false", id)
    /\ UNCHANGED <<nextTaskId, reminders, noteVars, userVars, calendar_tokens, calendar_connected>>
    /\ DbFrame

FaultyDeleteTask ==
  \E u \in Users, id \in TaskIdArgs, fault \in {"none", "query", "commit"} :
    /\ tasks' = (IF committed(fault) THEN db_delete_task(id, u) ELSE tasks)
    /\ reminders' = (IF committed(fault) THEN delete_task_cascade(id, u) ELSE reminders)
    /\ DbCall(u, "db.delete_task", fault, "returned_false", id)
    /\ UNCHANGED <<nextTaskId, noteVars, userVars, calendar_tokens, calendar_connected>>
    /\ DbFrame

\* create_note: the statement after the commit is session.refresh(note);
\* the except clause re-raises
FaultyCreateNote ==
  \E u \in Users, fault \in {"none", "commit", "after_commit"} :
    /\ nextNoteId <= MaxNotes
    /\ IF committed(fault)
         THEN /\ notes' = create_note(u, <<"N">>, "draft", "None", None)
              /\ nextNoteId' = nextNoteId + 1
         ELSE UNCHANGED noteVars
    /\ DbCall(u, "db.create_note", fault, "raised", nextNoteId)
    /\ UNCHANGED <<storeVars, userVars, calendar_tokens, calendar_connected>>
    /\ DbFrame

FaultyUpdateNote ==
  \E u \in Users, id \in NoteIdArgs, fault \in {"none", "query", "commit"} :
    /\ notes' = (IF committed(fault) THEN update_note(id, u, "edited") ELSE notes)
    /\ DbCall(u, "db.update_note", fault, "returned_false", id)
    /\ UNCHANGED <<storeVars, nextNoteId, userVars, calendar_tokens, calendar_connected>>
    /\ DbFrame

FaultyDeleteNote ==
  \E u \in Users, id \in NoteIdArgs, fault \in {"none", "query", "commit"} :
    /\ notes' = (IF committed(fault) THEN delete_note(id, u) ELSE notes)
    /\ DbCall(u, "db.delete_note", fault, "returned_false", id)
    /\ UNCHANGED <<storeVars, nextNoteId, userVars, calendar_tokens, calendar_connected>>
    /\ DbFrame

NextFault ==
  \/ FaultyAddTask
  \/ FaultyCompleteTask
  \/ FaultyDeleteTask
  \/ FaultyCreateNote
  \/ FaultyUpdateNote
  \/ FaultyDeleteNote

SpecFault == Init /\ [][NextFault]_vars

(* --------------------- Database Manager: get_or_create_user ------------ *)
primary_key_unchecked(user_id) == TRUE

\* the primary key of table users: an INSERT of a second row with the same
\* user_id fails with IntegrityError
primary_key_free(user_id) == UserRows(user_id) = {}

UsersFrame ==
  /\ UNCHANGED appBVars
  /\ UNCHANGED <<storeVars, noteVars, calVars, convVars, now, delete_prompts, complete_pc>>
  /\ UNCHANGED <<premium_status, mood_conv, mood_logs, ai_calls, cal_conv, brain_conv, slotVars>>

\* lines 53-55: the session is opened and the row is looked up
get_or_create_user_query ==
  \E c \in Callers, u \in Users :
    /\ get_or_create_pc[c] = Idle
    /\ get_or_create_pc' = [get_or_create_pc EXCEPT ![c] = [user |-> u, found |-> UserRows(u) # {}]]
    /\ lastUpdate' = Command(u, "get_or_create_user", "query", c)
    /\ reply' = NoReply
    /\ UNCHANGED <<users, premium>>
    /\ UsersFrame

\* lines 57-78: the row is inserted with the column defaults, or its
\* last_active is refreshed; a failing commit is rolled back and None returned
get_or_create_user_write ==
  \E c \in Callers :
    LET u == get_or_create_pc[c].user IN
    /\ get_or_create_pc[c] # Idle
    /\ get_or_create_pc' = [get_or_create_pc EXCEPT ![c] = Idle]
    /\ lastUpdate' = Command(u, "get_or_create_user", "write", c)
    /\ IF get_or_create_pc[c].found
         THEN /\ users' = [i \in DOMAIN users |->
                             IF users[i].user_id = u
                               THEN [users[i] EXCEPT !.last_active = now]
                               ELSE users[i]]
              /\ UNCHANGED premium
              /\ reply' = Report(u, "returned_user", 0)
       ELSE IF primary_key_free(u)
         THEN /\ users' = Append(users, NewUser(u))
              /\ premium' = [premium EXCEPT ![u] = FALSE]
              /\ reply' = Report(u, "created_user", 0)
       ELSE /\ UNCHANGED <<users, premium>>
            /\ reply' = Report(u, "returned_none", 0)
    /\ UsersFrame

\* no user has contacted the bot yet
InitUsers ==
  /\ InitTasks
  /\ InitCalendar
  /\ InitB
  /\ now = 0
  /\ InitUsersWith(<<>>, [u \in Users |-> FALSE])
  /\ InitSessions
  /\ InitNotes
  /\ NoSlotQuery

NextUsers ==
  \/ Tick
  \/ get_or_create_user_query
  \/ get_or_create_user_write
  \/ update_user_premium

SpecUsers == InitUsers /\ [][NextUsers]_vars

(* ------------------- CalendarService.find_free_slots ------------------- *)
\* Hours are counted from ClockStart, the midnight at which day 0 begins;
\* now is the hour of day 0 at which the call is made.
WorkStartHour == 9
WorkEndHour == 18
SlotLimit == 10
EventListLimit == 50
Saturday == 5

\* date.weekday() of the day that many days after ClockStart
weekday(day) == (toordinal(ClockStart) + day + 6) % 7

\* an event with start.dateTime and end.dateTime: fromisoformat gives
\* datetimes that carry a UTC offset
TimedEvent(day, from, to) ==
  [start |-> day * HoursPerDay + from, end |-> day * HoursPerDay + to, aware |-> TRUE]

\* an all-day event has start.date and end.date only: fromisoformat gives
\* naive midnights
AllDayEvent(day) ==
  [start |-> day * HoursPerDay, end |-> (day + 1) * HoursPerDay, aware |-> FALSE]

RECURSIVE ByStart(_)
\* orderBy='startTime'
ByStart(es) ==
  IF es = {} THEN <<>>
  ELSE LET first == CHOOSE e \in es : \A f \in es : e.start <= f.start
       IN <<first>> \o ByStart(es \ {first})

\* the events the calendar returns for [now, now + days); nothing when the
\* user has no credentials or the request raises
get_upcoming_events(calendar, days, fetched) ==
  IF ~fetched THEN <<>>
  ELSE FirstRows(ByStart({e \in calendar : e.end > now /\ e.start < now + days * HoursPerDay}),
                 EventListLimit)

RECURSIVE is_free(_, _, _, _)
\* the loop over busy_times for one slot: comparing the naive slot bounds
\* with a datetime that carries an offset raises TypeError
is_free(slot_start, slot_end, busy_times, i) ==
  IF i > Len(busy_times) THEN "free"
  ELSE IF busy_times[i].aware THEN "TypeError"
  ELSE IF slot_start < busy_times[i].end /\ slot_end > busy_times[i].start THEN "busy"
  ELSE is_free(slot_start, slot_end, busy_times, i + 1)

\* the slot starts the two while loops visit
SlotStarts(duration_hours, days_ahead) ==
  {day * HoursPerDay + hour :
     day \in {d \in 0..(days_ahead - 1) : weekday(d) < Saturday},
     hour \in {h \in WorkStartHour..WorkEndHour : h + duration_hours <= WorkEndHour}}

RECURSIVE Ascending(_)
Ascending(hours) ==
  IF hours = {} THEN <<>>
  ELSE LET first == CHOOSE h \in hours : \A k \in hours : h <= k
       IN <<first>> \o Ascending(hours \ {first})

\* free_slots[:10]; the except clause returns [] when a comparison raised
find_free_slots(calendar, duration_hours, days_ahead, fetched) ==
  LET busy_times == get_upcoming_events(calendar, days_ahead, fetched)
      starts == SlotStarts(duration_hours, days_ahead)
      raised == \E s \in starts : is_free(s, s + duration_hours, busy_times, 1) = "TypeError"
      free == Ascending({s \in starts : is_free(s, s + duration_hours, busy_times, 1) = "free"})
  IN IF raised THEN <<>>
     ELSE [i \in 1..Len(FirstRows(free, SlotLimit)) |->
             [start |-> free[i], end |-> free[i] + duration_hours]]

\* the calendars a user may have
Calendars == SUBSET {TimedEvent(0, 10, 11), AllDayEvent(1), AllDayEvent(0)}
Durations == 1..MaxDuration
DaysAhead == {1, MaxDaysAhead - 2, MaxDaysAhead}

\* a call of find_free_slots for the calendar of the user
FindFreeSlots ==
  \E fetched \in BOOLEAN :
    /\ slots_in # NoQuery
    /\ slots_out' = find_free_slots(slots_in.calendar, slots_in.duration_hours,
                                    slots_in.days_ahead, fetched)
    /\ lastUpdate' = Command(slots_in.user, "find_free_slots",
                             IF fetched THEN "fetched" ELSE "fetch_failed", 0)
    /\ reply' = Report(slots_in.user, "free_slots", Len(slots_out'))
    /\ UNCHANGED appBVars
    /\ UNCHANGED <<storeVars, noteVars, calVars, convVars, now, delete_prompts, complete_pc>>
    /\ UNCHANGED <<premiumVars, cal_conv, brain_conv, usersVars, slots_in, callVars>>

InitSlots ==
  /\ InitTasks
  /\ InitCalendar
  /\ InitB
  /\ InitKnownUsers
  /\ InitNotes
  /\ slots_out = <<>>
  /\ \E u \in Users, calendar \in Calendars, d \in Durations, days \in DaysAhead :
       slots_in = [user |-> u, calendar |-> calendar, duration_hours |-> d, days_ahead |-> days]

NextSlots ==
  \/ Tick
  \/ FindFreeSlots

SpecSlots == InitSlots /\ [][NextSlots]_vars

(* --------------------------- task breakdown ---------------------------- *)
PriorityBuckets == {"high", "medium", "low"}

\* lines 76-80: the test each count of by_priority applies to a task's priority
in_bucket(bucket, priority) ==
  \/ bucket = "high" /\ priority = 2
  \/ bucket = "medium" /\ priority = 1
  \/ bucket = "low" /\ priority = 0

\* AnalyticsService.get_task_breakdown: the counts of by_priority
by_priority(user_id) ==
  [bucket \in PriorityBuckets |->
     Cardinality({id \in DOMAIN tasks :
                    tasks[id].user_id = user_id /\ in_bucket(bucket, tasks[id].priority)})]

\* get_task_breakdown called for a user
GetTaskBreakdown ==
  \E u \in Users :
    /\ request' = [op |-> "get_task_breakdown", user |-> u]
    /\ response' = <<by_priority(u)>>
    /\ reply' = NoReply
    /\ StatsFrame

\* tasks are created, through the conversation and otherwise, and broken down
NextBreakdown ==
  \/ StoreTask
  \/ add_task_start
  \/ receive_task_title
  \/ receive_task_category
  \/ receive_task_deadline
  \/ receive_task_priority
  \/ cancel_conversation
  \/ GetTaskBreakdown

SpecBreakdown == Init /\ [][NextBreakdown]_vars

(* ---------------- conversations sharing context.user_data -------------- *)
\* the task, mood and brainstorm conversations of a user run side by side: each
\* ConversationHandler keeps a state of its own, context.user_data is one dict per user
\* the buttons the user presses and the texts the user sends while the conversations
\* run side by side: one valid input per step
SharedPresses == {"category_", "deadline_", "priority_", "mood_happy", "energy_3"}
SharedTexts == {GoodTitle, <<"o", "k">>, <<"t">>, <<"1">>}

\* the update of a step comes from the user who may use every conversation
FromPremiumUser ==
  /\ lastUpdate'.user = PremiumUser
  /\ lastUpdate'.kind = "callback" =>
       /\ lastUpdate'.data \in SharedPresses
       /\ lastUpdate'.data = "deadline_" => lastUpdate'.argKind = "none"
       /\ lastUpdate'.data = "priority_" => lastUpdate'.arg = 2
  /\ lastUpdate'.kind = "text" => lastUpdate'.text \in SharedTexts

NextShared ==
  \/ add_task_start /\ FromPremiumUser
  \/ receive_task_title /\ FromPremiumUser
  \/ receive_task_category /\ FromPremiumUser
  \/ receive_task_deadline /\ FromPremiumUser
  \/ receive_task_priority /\ FromPremiumUser
  \/ cancel_conversation /\ FromPremiumUser
  \/ log_mood /\ FromPremiumUser
  \/ MoodSelected /\ FromPremiumUser
  \/ EnergySelected /\ FromPremiumUser
  \/ ContextReceived /\ FromPremiumUser
  \/ SkipContext /\ FromPremiumUser
  \/ MoodCancel /\ FromPremiumUser
  \/ brainstorm /\ FromPremiumUser
  \/ topic_received /\ FromPremiumUser
  \/ idea_selected /\ FromPremiumUser
  \/ done_brainstorming /\ FromPremiumUser
  \/ brainstorm_cancel /\ FromPremiumUser

SpecShared == InitMood /\ [][NextShared]_vars

(* ------------------------- check_calendar_reminders -------------------- *)
\* minutes until an event starts: already started, due, not yet due
DiffValues == {0 - 1, DueMinutes, DueMinutes + 1}

RECURSIVE FetchedFrom(_)
\* get_upcoming_events(): some of the upcoming events, in the calendar's order
FetchedFrom(ids) ==
  IF ids = {} THEN {<<>>}
  ELSE LET id == CHOOSE x \in ids : \A y \in ids : x <= y
           rest == FetchedFrom(ids \ {id})
       IN rest \cup {<<[id |-> id, diff |-> d]>> \o r : d \in DiffValues, r \in rest}

FetchedLists == FetchedFrom(UpcomingIds)

reminder_unsent_always(event_id) == TRUE

\* line 123: if event_id not in sent_reminders
reminder_unsent(event_id) == event_id \notin sent_reminders

Logged(kind, id) == [kind |-> kind, id |-> id]

\* the scheduler starts a cycle (one instance at a time): line 106
PollStart ==
  /\ poll_pc = "idle"
  /\ \E fetched \in FetchedLists : poll_events' = fetched
  /\ poll_pc' = "loop"
  /\ poll_log' = Logged("fetched", 0)
  /\ UNCHANGED <<sent_reminders, notified>>
  /\ UNCHANGED <<appAVars, msgVars, listVars, overlap>>

\* lines 110-123: the next event of the list
PollCheck ==
  /\ poll_pc = "loop"
  /\ poll_events # <<>>
  /\ LET event == Head(poll_events) IN
     IF ~(0 <= event.diff /\ event.diff <= DueMinutes)
       THEN /\ poll_events' = Tail(poll_events)
            /\ poll_log' = Logged("not_due", event.id)
            /\ UNCHANGED poll_pc
     ELSE IF ~reminder_unsent(event.id)
       THEN /\ poll_events' = Tail(poll_events)
            /\ poll_log' = Logged("skipped", event.id)
            /\ UNCHANGED poll_pc
     ELSE /\ poll_pc' = "send"
          /\ poll_log' = Logged("due", event.id)
          /\ UNCHANGED poll_events
  /\ UNCHANGED <<sent_reminders, notified>>
  /\ UNCHANGED <<appAVars, msgVars, listVars, overlap>>

\* line 124: await bot.send_message(...); a failed send ends the cycle
PollSend ==
  /\ poll_pc = "send"
  /\ LET event == Head(poll_events) IN
     \E delivered \in BOOLEAN :
       IF delivered
         THEN /\ notified' = [notified EXCEPT ![event.id] = @ + 1]
              /\ poll_pc' = "add"
              /\ poll_log' = Logged("sent", event.id)
              /\ UNCHANGED poll_events
         ELSE /\ poll_pc' = "idle"
              /\ poll_events' = <<>>
              /\ poll_log' = Logged("send_failed", event.id)
              /\ UNCHANGED notified
  /\ UNCHANGED sent_reminders
  /\ UNCHANGED <<appAVars, msgVars, listVars, overlap>>

\* line 125: sent_reminders.add(event_id)
PollAdd ==
  /\ poll_pc = "add"
  /\ sent_reminders' = sent_reminders \cup {Head(poll_events).id}
  /\ poll_events' = Tail(poll_events)
  /\ poll_pc' = "loop"
  /\ poll_log' = Logged("added", Head(poll_events).id)
  /\ UNCHANGED notified
  /\ UNCHANGED <<appAVars, msgVars, listVars, overlap>>

\* lines 128-129: after the loop
PollEnd ==
  /\ poll_pc = "loop"
  /\ poll_events = <<>>
  /\ IF Cardinality(sent_reminders) > SentLimit
       THEN /\ sent_reminders' = {}
            /\ notified' = [id \in EventIds |-> 0]
            /\ poll_log' = Logged("cleared", 0)
       ELSE /\ poll_log' = Logged("kept", 0)
            /\ UNCHANGED <<sent_reminders, notified>>
  /\ poll_pc' = "idle"
  /\ UNCHANGED poll_events
  /\ UNCHANGED <<appAVars, msgVars, listVars, overlap>>

NextPoll ==
  \/ PollStart
  \/ PollCheck
  \/ PollSend
  \/ PollAdd
  \/ PollEnd

\* how many reminders the set holds when the model is entered
SentBefore == {0, SentLimit - 1, SentLimit}

InitPoll == InitA /\ InitMsg /\ \E sent \in SentBefore : InitPollAfter(sent)

SpecPoll == InitPoll /\ [][NextPoll]_vars

\* a second cycle is started while the running one waits at line 124; it fetches the
\* events the waiting cycle still holds (get_upcoming_events() is not awaited)
OverlapStart ==
  /\ poll_pc = "send"
  /\ overlap.pc = "idle"
  /\ overlap' = [pc |-> poll_pc, events |-> poll_events]
  /\ poll_pc' = "loop"
  /\ poll_log' = Logged("fetched", 0)
  /\ UNCHANGED <<poll_events, sent_reminders, notified>>
  /\ UNCHANGED <<appAVars, msgVars, listVars>>

\* the event loop resumes the cycle that waits at line 124 once the running one has
\* ended or waits itself
OverlapResume ==
  /\ poll_pc \in {"idle", "send"}
  /\ overlap.pc = "send"
  /\ overlap' = [pc |-> poll_pc, events |-> poll_events]
  /\ poll_pc' = overlap.pc
  /\ poll_events' = overlap.events
  /\ poll_log' = Logged("resumed", Head(overlap.events).id)
  /\ UNCHANGED <<sent_reminders, notified>>
  /\ UNCHANGED <<appAVars, msgVars, listVars>>

NextOverlap ==
  \/ NextPoll
  \/ OverlapStart
  \/ OverlapResume

SpecOverlap == InitPoll /\ [][NextOverlap]_vars

(* ------------------------------ claims -------------------------------- *)
\* the latest step handled /complete <id> sent by the owner of task id
CompleteOf(u, id) ==
  /\ lastUpdate' = Command(u, "complete", "num", id)
  /\ get_task(id, u) # NoTask

C2_StatusLifecycle ==
  /\ [](\A id \in DOMAIN tasks :
          (tasks[id].completed_at # NoTime) <=> (tasks[id].status = "completed"))
  /\ [][\A id \in (DOMAIN tasks) \cap (DOMAIN tasks') :
          tasks'[id].status # tasks[id].status =>
            /\ tasks[id].status = "pending"
            /\ tasks'[id].status \in {"completed", "cancelled"}]_vars

\* one task is completed while another is still pending
C2_Witness ==
  \E i, j \in DOMAIN tasks :
    /\ tasks[i].status = "completed" /\ tasks[i].completed_at # NoTime
    /\ tasks[j].status = "pending" /\ tasks[j].completed_at = NoTime

\* C3: a Database Manager call made for user u returns, changes and removes only
\* rows owned by u, the calendar-event id of a task included.
C3_OwnershipScoped ==
  [][LET u == reply'.user IN
       /\ \A id \in DOMAIN tasks :
            (id \notin DOMAIN tasks' \/ tasks'[id] # tasks[id]) => tasks[id].user_id = u
       /\ \A id \in DOMAIN notes :
            (id \notin DOMAIN notes' \/ notes'[id] # notes[id]) => notes[id].user_id = u
       /\ (reply'.kind = "get_task" /\ reply'.task # NoTask) => tasks[reply'.task].user_id = u
       /\ (reply'.kind = "get_note" /\ reply'.task # NoNote) => notes[reply'.task].user_id = u]_vars

\* C4: between two clearings of sent_reminders the poller delivers at most one
\* reminder for any event id, however many cycles run; the set is cleared only when
\* it holds more than SentLimit ids.
C4_OneReminderPerId ==
  /\ [](\A id \in EventIds : notified[id] <= 1)
  /\ [][~(sent_reminders \subseteq sent_reminders') =>
          sent_reminders' = {} /\ Cardinality(sent_reminders) > SentLimit]_vars

\* a later cycle meets a due event it has already reminded of, and skips it
C4_Witness ==
  /\ poll_log.kind = "skipped"
  /\ poll_log.id \in UpcomingIds
  /\ notified[poll_log.id] = 1
  /\ poll_log.id \in sent_reminders

EventsOf(task_id) == {e \in events : e.task = task_id}

Unsynced(u) ==
  {id \in DOMAIN tasks : /\ tasks[id].user_id = u
                         /\ tasks[id].status = "pending"
                         /\ tasks[id].calendar_event_id = NoEvent}

\* C8: a /sync of a connected user attempts every pending task that lacks an event
\* id: the synced and failed counts it reports sum to the number of such tasks when
\* the command started, and every one of them that did not fail carries an event id.
C8_SyncCountsEveryTask ==
  [][(reply'.kind = "sync_complete" /\ lastUpdate'.data = "sync") =>
       /\ reply'.synced + reply'.failed = Cardinality(Unsynced(reply'.user))
       /\ Cardinality({id \in Unsynced(reply'.user) :
                         tasks'[id].calendar_event_id # NoEvent}) = reply'.synced]_vars

\* C9: a step of the conversation writes a task only when a priority is selected in
\* WAITING_TASK_PRIORITY, and that step stores exactly one task with the held title,
\* category and deadline and the selected priority, confirms, ends the conversation
\* and clears the held data.
C9_PrioritySelectionPersists ==
  [][\A u \in Users :
       IF lastUpdate' = CallbackQuery(u, "priority_", "", lastUpdate'.arg)
            /\ conv[u] = WAITING_TASK_PRIORITY
         THEN /\ DOMAIN tasks' = (DOMAIN tasks) \cup {nextTaskId}
              /\ nextTaskId \notin DOMAIN tasks
              /\ tasks'[nextTaskId].user_id = u
              /\ tasks'[nextTaskId].title = user_data[u]["task_title"]
              /\ tasks'[nextTaskId].category = user_data[u]["task_category"]
              /\ tasks'[nextTaskId].deadline = user_data_get(u, "task_deadline", NoDeadline)
              /\ tasks'[nextTaskId].priority = lastUpdate'.arg
              /\ reply' = Report(u, "task_added", nextTaskId)
              /\ conv'[u] = END
              /\ user_data'[u] = EmptyDict
         ELSE lastUpdate'.user = u => tasks' = tasks]_vars

\* a cancel: the /cancel command, or the Cancel button of the category keyboard
\* pressed in the state that shows that keyboard
IsCancel(update, state) ==
  \/ update.kind = "command" /\ update.data = "cancel"
  \/ /\ update.kind = "text"
     /\ update.text = CancelButton
     /\ CancelButton \in get_task_category_keyboard
     /\ state = WAITING_TASK_CATEGORY

\* C10: in every state of the task conversation a cancel ends the conversation,
\* clears the held data and persists no task.
C10_CancelInEveryState ==
  [][\A u \in Users :
       (/\ conv[u] \in WaitingStates
        /\ lastUpdate'.user = u
        /\ IsCancel(lastUpdate', conv[u])) =>
         /\ conv'[u] = END
         /\ user_data'[u] = EmptyDict
         /\ tasks' = tasks]_vars

\* the records the latest step wrote
EventsWritten == Len(gcal') - Len(gcal)
IdeasWritten == Len(ideas') - Len(ideas)

\* C5: handling one voice message for which no service call fails and the classifier
\* gives one and the same answer writes at most one record: nothing when the answer
\* is a task with the needs-clarification time (the user is asked to clarify),
\* otherwise exactly one calendar event for a task or exactly one idea row for an idea.
C5_VoiceWritesOneRecord ==
  [][(/\ b_last'.handler = "voice"
      /\ ~b_last'.fault
      /\ Len(b_last'.answers) >= 1
      /\ \A i \in 1..Len(b_last'.answers) : b_last'.answers[i] = b_last'.answers[1]) =>
       LET first == process_text_with_ai(b_last'.text, b_last'.answers[1]) IN
       /\ EventsWritten + IdeasWritten <= 1
       /\ NeedsClarification(first) =>
            EventsWritten = 0 /\ IdeasWritten = 0 /\ b_last'.reply = "clarify"
       /\ (~NeedsClarification(first) /\ first.type = "task") =>
            EventsWritten = 1 /\ IdeasWritten = 0
       /\ first.type = "idea" =>
            EventsWritten = 0 /\ IdeasWritten = 1]_vars

\* C6: when the classification call fails, the text handler stores the original text
\* as an idea of category General and creates no calendar event.
C6_FallbackKeepsMessage ==
  [][(b_last'.handler = "text" /\ b_last'.answers[1].failed) =>
       /\ ideas' = Append(ideas, [content |-> b_last'.text, category |-> "General"])
       /\ gcal' = gcal
       /\ b_last'.reply = "idea_saved"]_vars

\* a text whose classification failed is the newest idea, verbatim
C6_Witness ==
  /\ b_last.handler = "text"
  /\ b_last.answers[1].failed
  /\ b_last.reply = "idea_saved"
  /\ Len(ideas) >= 1
  /\ ideas[Len(ideas)] = [content |-> b_last.text, category |-> "General"]
  /\ b_last.text \in UserTexts

\* the category options the keyboard offers (every button but Cancel)
CategoryButtons == get_task_category_keyboard \ {CancelButton}

\* C11: after a valid title, choosing an option of the offered category keyboard
\* stores a category and moves the conversation to WAITING_TASK_DEADLINE.
C11_OfferedCategoryAdvances ==
  [][\A u \in Users :
       (/\ conv[u] = WAITING_TASK_CATEGORY
        /\ lastUpdate' = TextMessage(u, lastUpdate'.text)
        /\ lastUpdate'.text \in CategoryButtons) =>
         /\ conv'[u] = WAITING_TASK_DEADLINE
         /\ DictHas(user_data'[u], "task_category")]_vars

\* the date-times the valid inputs denote, and the inputs that denote none
C12_Denotes ==
  {[text |-> FutureDateText, at |-> Datetime(2099, 12, 31, 0, 0)],
   [text |-> PastDateText, at |-> Datetime(2000, 1, 1, 0, 0)],
   [text |-> LeapDayText, at |-> Datetime(2028, 2, 29, 0, 0)],
   [text |-> EpochDayText, at |-> Datetime(2026, 1, 15, 0, 0)],
   [text |-> DayBeforeText, at |-> Datetime(2026, 1, 14, 0, 0)],
   [text |-> TimedText, at |-> Datetime(2026, 1, 15, 0, 30)],
   [text |-> LaterTimedText, at |-> Datetime(2026, 1, 15, 14, 30)]}

C12_Invalid ==
  {CancelButton, InvalidDayText, NoLeapDayText, BadHourText, NoTimeText, YearFirstText}

\* a is an earlier date-time than b, field by field
Earlier(a, b) ==
  LET x == <<a.year, a.month, a.day, a.hour, a.minute>>
      y == <<b.year, b.month, b.day, b.hour, b.minute>>
  IN \E i \in 1..5 : x[i] < y[i] /\ \A j \in 1..(i - 1) : x[j] = y[j]

\* the date-time of the clock (the clock stays within its first day)
NowDatetime == Datetime(ClockStart.year, ClockStart.month, ClockStart.day, now, 0)

\* C12: in the custom-deadline step a text that is no valid date, or that denotes a
\* date-time before now, is rejected with a re-prompt and changes neither the state
\* of the conversation nor its held data; a valid text that denotes a later date-time
\* stores exactly that date-time as the deadline and moves on to WAITING_TASK_PRIORITY.
C12_CustomDeadlineChecked ==
  [][\A u \in Users :
       (/\ conv[u] = WAITING_TASK_DEADLINE
        /\ user_data_get(u, "waiting_custom_deadline", FALSE)
        /\ lastUpdate' = TextMessage(u, lastUpdate'.text)
        /\ lastUpdate'.text \in DateTexts) =>
         LET text == lastUpdate'.text
             denoted == {d \in C12_Denotes : d.text = text}
         IN
         /\ text \in C12_Invalid =>
              /\ reply' = Report(u, "invalid_date", 0)
              /\ conv' = conv /\ user_data' = user_data
         /\ \A d \in denoted :
              /\ Earlier(d.at, NowDatetime) =>
                   /\ reply' = Report(u, "date_in_past", 0)
                   /\ conv' = conv /\ user_data' = user_data
              /\ Earlier(NowDatetime, d.at) =>
                   /\ reply' = Report(u, "ask_priority", 0)
                   /\ user_data'[u]["task_deadline"] = d.at
                   /\ conv'[u] = WAITING_TASK_PRIORITY
         /\ text \in C12_Invalid \/ denoted # {}]_vars

\* a text with a time of day, later than the clock, has been stored as the deadline,
\* after the text of the same day without a time would have been in the past
C12_Witness ==
  /\ now >= 1
  /\ lastUpdate.kind = "text"
  /\ lastUpdate.text = LaterTimedText
  /\ reply.kind = "ask_priority"
  /\ conv[reply.user] = WAITING_TASK_PRIORITY
  /\ user_data[reply.user]["task_deadline"] = Datetime(2026, 1, 15, 14, 30)

\* C13: /addtask of a non-premium user who has created FreeTierDailyTasks
\* tasks today is answered with the limit message and starts no
\* conversation; /addtask of a non-premium user with fewer tasks today, and
\* of every premium user, is answered with the title prompt and enters
\* WAITING_TASK_TITLE.
C13_FreeTierGate ==
  [][\A u \in Users :
       (conv[u] = END /\ lastUpdate' = Command(u, "addtask", "none", 0)) =>
         IF ~premium[u] /\ get_tasks_count_today(u) >= FreeTierDailyTasks
           THEN reply' = Report(u, "limit_reached", 0) /\ conv'[u] = END
           ELSE reply' = Report(u, "ask_title", 0) /\ conv'[u] = WAITING_TASK_TITLE]_vars

GatedCommands == {"mood", "mood_history", "suggest", "dailyplan", "brainstorm", "mood_insights"}

\* C15: every premium-gated command decides on the stored premium flag of
\* the user: while the flag is false the command is answered with the
\* upsell message, no mood log is written and the AI is not asked; while it
\* is true the command is admitted; and set_premium_status(user, True)
\* makes the flag true.
C15_SamePremiumFlag ==
  [][\A u \in Users :
       /\ \A command \in GatedCommands :
            lastUpdate' = Command(u, command, "none", 0) =>
              IF ~premium[u]
                THEN /\ reply' = Report(u, "upsell", 0)
                     /\ mood_logs' = mood_logs
                     /\ ai_calls' = ai_calls
                ELSE reply'.kind # "upsell"
       /\ lastUpdate' = Command(u, "set_premium_status", "True", 0) => premium'[u]]_vars

\* C14: a task row leaves the store only in the step that handles the press
\* of the "Yes, Delete" button of a confirmation shown to that user for that
\* task; the /delete command and the press of the Cancel button leave the
\* task store as it was.
C14_DeleteOnlyAfterConfirm ==
  [][/\ \A id \in DOMAIN tasks :
          id \notin DOMAIN tasks' =>
            \E u \in Users :
              /\ <<u, id>> \in delete_prompts
              /\ lastUpdate' = CallbackQuery(u, "confirm_delete_", "", id)
     /\ (lastUpdate'.kind = "command" /\ lastUpdate'.data = "delete") => tasks' = tasks
     /\ (lastUpdate'.kind = "callback" /\ lastUpdate'.data = "cancel_delete") => tasks' = tasks]_vars

C14_Witness ==
  /\ lastUpdate.kind = "callback"
  /\ lastUpdate.data = "confirm_delete_"
  /\ reply = Report(lastUpdate.user, "deleted", lastUpdate.arg)
  /\ <<lastUpdate.user, lastUpdate.arg>> \in delete_prompts
  /\ lastUpdate.arg \notin DOMAIN tasks

\* C16: in every state a user's calendar_connected flag is true exactly when
\* a token blob is stored for the user, is_connected is true exactly then,
\* and get_calendar_tokens returns nothing while the flag is false; a user
\* who is not connected becomes connected only in the step of a code
\* exchange that succeeded.
C16_ConnectedIffTokens ==
  /\ [](\A u \in Users :
          /\ calendar_connected[u] <=> (calendar_tokens[u] # NoTokens)
          /\ is_connected(u) <=> calendar_connected[u]
          /\ ~calendar_connected[u] => get_calendar_tokens(u) = NoTokens)
  /\ [][\A u \in Users :
          (~is_connected(u) /\ calendar_connected'[u]) =>
            /\ lastUpdate' = Command(u, "start", "none", 0)
            /\ reply' = Report(u, "calendar_connected", 0)]_vars

\* a user who connected, synced a task and disconnected
C16_Witness ==
  /\ lastUpdate.data = "disconnect_calendar"
  /\ reply.kind = "calendar_disconnected"
  /\ ~is_connected(reply.user)
  /\ calendar_tokens[reply.user] = NoTokens
  /\ \E e \in events : e.user = reply.user

\* C17: in AWAITING_OAUTH_CODE a plain message carrying the authorization
\* code is handled: the exchange is made, the conversation ends with the
\* confirmation or with the retry prompt, and the user is connected
\* afterwards exactly when the confirmation was sent.
C17_CodeMessageAccepted ==
  [][\A u \in Users :
       (cal_conv[u] = AWAITING_OAUTH_CODE /\ lastUpdate' = TextMessage(u, <<"code">>)) =>
         /\ cal_conv'[u] = END
         /\ reply' \in {Report(u, "calendar_connected", 0), Report(u, "connection_failed", 0)}
         /\ calendar_connected'[u] <=> (reply'.kind = "calendar_connected")]_vars

\* the tables of Application A
Tables == <<tasks, notes, premium, calendar_tokens, calendar_connected>>

\* C18: a call of a mutating Database Manager operation in which the storage
\* layer fails leaves every table as it was before the call and returns
\* None or False; create_note alone raises, and it too leaves the tables as
\* they were.
C18_FailureRollsBack ==
  [][(lastUpdate'.kind = "command" /\ lastUpdate'.argKind \in Faults \ {"none"}) =>
       /\ Tables' = Tables
       /\ IF lastUpdate'.data = "db.create_note"
            THEN reply'.kind = "raised"
            ELSE reply'.kind \in {"returned_none", "returned_false"}]_vars

\* C19: table users never holds two rows of one user id; a call of
\* get_or_create_user that has written leaves exactly one row of its user;
\* the call that finds no row creates it with premium false, and every
\* other call changes nothing of the row but last_active.
C19_OneUserRow ==
  /\ [](\A u \in Users : Cardinality(UserRows(u)) <= 1)
  /\ [][\A u \in Users :
          (lastUpdate'.data = "get_or_create_user" /\ lastUpdate'.argKind = "write"
             /\ lastUpdate'.user = u) =>
            /\ Cardinality({i \in DOMAIN users' : users'[i].user_id = u}) = 1
            /\ IF UserRows(u) = {}
                 THEN premium'[u] = FALSE
                 ELSE /\ premium'[u] = premium[u]
                      /\ DOMAIN users' = DOMAIN users
                      /\ \A i \in UserRows(u) :
                           users'[i] = [users[i] EXCEPT !.last_active = users'[i].last_active]
            /\ \A i \in DOMAIN users :
                 users[i].user_id # u => (i \in DOMAIN users' /\ users'[i] = users[i])
            /\ \A v \in Users \ {u} : premium'[v] = premium[v]]_vars

\* two calls for a new user overlapped: the second insert was refused
C19_Witness ==
  /\ lastUpdate.data = "get_or_create_user"
  /\ reply = Report(lastUpdate.user, "returned_none", 0)
  /\ Cardinality(UserRows(lastUpdate.user)) = 1

Overlaps(slot, event) == slot.start < event.end /\ slot.end > event.start

\* C20: every slot find_free_slots returns lies on a weekday between 09:00
\* and 18:00, is duration_hours long and overlaps no event of the user's
\* calendar in the days looked ahead; at most SlotLimit slots are returned.
C20_FreeSlotsAreFree ==
  (lastUpdate.data = "find_free_slots") =>
    /\ Len(slots_out) <= SlotLimit
    /\ \A i \in DOMAIN slots_out :
         LET slot == slots_out[i]
             day == slot.start \div HoursPerDay
         IN /\ weekday(day) < Saturday
            /\ slot.start >= day * HoursPerDay + WorkStartHour
            /\ slot.end <= day * HoursPerDay + WorkEndHour
            /\ slot.end - slot.start = slots_in.duration_hours
            /\ \A event \in slots_in.calendar :
                 (event.end > now /\ event.start < now + slots_in.days_ahead * HoursPerDay) =>
                   ~Overlaps(slot, event)

\* C21: whenever the voice handler has handled a message (it returned a result,
\* asked for clarification, or failed), the temporary audio file it downloaded
\* for that message is no longer on disk.
C21_VoiceFileRemoved ==
  [][(b_last'.handler = "voice") => VoiceFile \notin files']_vars

\* C22: in every state of the brainstorm conversation (topic awaited, idea
\* to be chosen, action to be chosen) the commands /done and /cancel end the
\* session of the user who sent them and leave none of the topic, the
\* generated ideas and the selected idea held for that user.
C22_DoneAndCancelEndSession ==
  [][\A u \in Users, command \in {"done", "cancel"} :
       (brain_conv[u] # END /\ lastUpdate' = Command(u, command, "none", 0)) =>
         /\ brain_conv'[u] = END
         /\ BrainstormKeys \cap DOMAIN user_data'[u] = {}]_vars

\* C23: the answer to /ideas lists every stored idea and carries a delete
\* button for each of them (the button of the idea with id i is delidea_i).
C23_IdeasListedWithDeleteButton ==
  [][(b_last'.handler = "ideas") =>
       \A id \in DOMAIN ideas' :
         /\ \E i \in DOMAIN idea_listing'.lines : idea_listing'.lines[i] = ideas'[id].content
         /\ id \in idea_listing'.buttons]_vars

\* the tasks of user u the filter makes eligible
Eligible(u, filter_type) ==
  {id \in DOMAIN tasks :
     /\ tasks[id].user_id = u
     /\ filter_type \in {"pending", "completed"} => tasks[id].status = filter_type
     /\ filter_type \in CategoryFilters => tasks[id].category = filter_type}

\* C24: the task listing answers the command /tasks (filter all) and the
\* filter buttons all, pending, completed and the four categories with rows
\* of the requesting user that the filter makes eligible (every status for
\* all, that status for pending and completed, that category for a
\* category), at most 10 of them, and with all of them when they are 10 or
\* fewer.
C24_ListingHonoursFilter ==
  [][\A u \in Users, by_button \in BOOLEAN, filter_type \in StatusFilters \cup CategoryFilters :
       (lastUpdate' = ViewUpdate(u, by_button, filter_type) /\ (by_button \/ filter_type = "all")) =>
         LET rendered == {reply'.task[i] : i \in DOMAIN reply'.task} IN
         /\ reply'.kind \in {"tasks", "no_tasks"}
         /\ Len(reply'.task) <= TaskPageSize
         /\ rendered \subseteq Eligible(u, filter_type)
         /\ Cardinality(Eligible(u, filter_type)) <= TaskPageSize =>
              rendered = Eligible(u, filter_type)]_vars

\* the step that retrieves, for its owner, the note the step before created
\* with an explicit tag list
RetrievesCreated ==
  /\ request.op = "create_note"
  /\ request.tags # None
  /\ request'.op = "get_note"
  /\ request'.user = request.user
  /\ request'.note_id = response.id

\* C27 as stated: for every explicit tag list, retrieving the note just
\* created yields a tag list that equals the supplied tags as a set.
C27_TagsRoundTrip ==
  [][RetrievesCreated => ToSet(response'.tags) = ToSet(request.tags)]_vars

\* C27: creating a note with an explicit list of tags, each non-empty and
\* without a comma, and then retrieving it yields a tag list that, compared
\* as a set, equals the supplied tags.
C27_PlainTagsRoundTrip ==
  [][(/\ RetrievesCreated
      /\ \A i \in DOMAIN request.tags :
           request.tags[i] # <<>> /\ "," \notin ToSet(request.tags[i])) =>
       ToSet(response'.tags) = ToSet(request.tags)]_vars

\* a note created with the tags w and u has been retrieved
C27_Witness ==
  /\ request.op = "get_note"
  /\ response.id # NoNote
  /\ notes[response.id].tags = <<"w", ",", "u">>
  /\ ToSet(response.tags) = {<<"w">>, <<"u">>}

\* the #word tokens of a text: the longest runs of word characters that
\* follow a '#'
HashTokens(text) ==
  {SubSeq(text, i + 1, j) : <<i, j>> \in
     {p \in (DOMAIN text) \X (DOMAIN text) :
        /\ text[p[1]] = "#"
        /\ p[1] < p[2]
        /\ \A k \in (p[1] + 1)..p[2] : text[k] \in WordChars
        /\ p[2] = Len(text) \/ text[p[2] + 1] \notin WordChars}}

\* C28: hashtag extraction returns every distinct #word token of the text
\* exactly once, returns nothing for a text without a '#', and extracting
\* again from the same text gives the same set of tags.
C28_ExtractTagsDistinct ==
  [][(request'.op = "extract_tags") =>
       /\ \A i, j \in DOMAIN response' : response'[i] = response'[j] => i = j
       /\ ToSet(response') = HashTokens(request'.content)
       /\ ("#" \notin ToSet(request'.content)) => response' = <<>>
       /\ (request.op = "extract_tags" /\ request.content = request'.content) =>
            ToSet(response') = ToSet(response)]_vars

\* the tags of a text that names #w twice have been extracted
C28_Witness ==
  /\ request.op = "extract_tags"
  /\ request.content = NOTE_DUP
  /\ response = <<<<"w">>>>

\* the notes of user u that the text or one of the tags selects: the text is
\* in the title or the content, or a requested tag is in the tags, letters
\* in either case (all notes of u when neither a text nor a tag is given)
Selected(u, query, tags) ==
  {id \in DOMAIN notes :
     /\ notes[id].user_id = u
     /\ \/ query = <<>> /\ tags = None
        \/ /\ query # <<>>
           /\ \/ contains(lower(notes[id].title), lower(query))
              \/ contains(lower(notes[id].content), lower(query))
        \/ /\ tags # None
           /\ notes[id].tags # NULL
           /\ \E i \in DOMAIN tags : contains(lower(notes[id].tags), lower(tags[i]))}

\* C25: the Database Manager's note search returns exactly the notes of the
\* requesting user whose title or content contains the text or whose tags
\* contain a requested tag, letters in either case, the most recently
\* updated first.
C25_SearchTextOrTag ==
  [][(request'.op = "db.search_notes") =>
       /\ ToSet(response') = Selected(request'.user, request'.query, request'.tags)
       /\ \A i, j \in DOMAIN response' :
            i < j => notes[response'[i]].updated_at >= notes[response'[j]].updated_at]_vars

\* the text is in the title, the content or the tags of the note
Mentions(note, query) ==
  \/ contains(lower(note.title), lower(query))
  \/ contains(lower(note.content), lower(query))
  \/ note.tags # NULL /\ contains(lower(note.tags), lower(query))

\* C26: the Note Service's search returns its results by descending
\* relevance; the relevance is 10 for a title equal to the text, 5 for a
\* title that contains it, plus 1 for each occurrence of the text in the
\* content and 3 for each requested tag among the note's tags; a note
\* titled exactly the text comes before one that has the text in its title
\* only; and every note returned has the text in its title, content or tags.
C26_SearchByRelevance ==
  [][(request'.op = "service.search_notes") =>
       LET query == request'.query
           found == response'
           note(i) == notes[found[i].id]
       IN
       /\ \A i, j \in DOMAIN found : i < j => found[i].relevance >= found[j].relevance
       /\ \A i \in DOMAIN found :
            found[i].relevance = calculate_relevance(note(i), query, request'.tags)
       /\ \A i, j \in DOMAIN found :
            (/\ lower(note(i).title) = lower(query)
             /\ lower(note(j).title) # lower(query)
             /\ contains(lower(note(j).title), lower(query))
             /\ found[j].relevance = 5) => i < j
       /\ \A i \in DOMAIN found : Mentions(note(i), query)]_vars

\* the calendar days on which the user completed a task
CompletionDays(u) ==
  {date(tasks[i].completed_at) :
     i \in {j \in DOMAIN tasks : /\ tasks[j].user_id = u
                                 /\ tasks[j].status = "completed"
                                 /\ tasks[j].completed_at # NoTime}}

\* how many days in a row, today first and going back, are among `days`
ConsecutiveDays(days, today) ==
  CHOOSE k \in 0..Cardinality(days) :
    /\ (today - k) \notin days
    /\ \A j \in 0..(k - 1) : (today - j) \in days

Ladder ==
  {<<"task", 1>>, <<"task", 10>>, <<"task", 50>>, <<"task", 100>>, <<"task", 500>>,
   <<"note", 1>>, <<"note", 25>>, <<"note", 100>>,
   <<"streak", 3>>, <<"streak", 7>>, <<"streak", 30>>}

\* C30: for every milestone of the task, note and streak tracks, unlocked is
\* true exactly when the user's count is at least the target and the progress
\* reported is the smaller of count and target; so progress never exceeds the
\* target and equals it exactly when the milestone is unlocked
C30_MilestonesReportProgress ==
  request.op = "get_achievements" =>
    \E have \in {[task |-> completed_count(request.user),
                  note |-> note_count(request.user),
                  streak |-> calculate_streak(request.user)]} :
      /\ {<<response[i].type, response[i].target>> : i \in DOMAIN response} = Ladder
      /\ Len(response) = Cardinality(Ladder)
      /\ \A i \in DOMAIN response :
           \E a \in {response[i]} :
             /\ a.unlocked <=> have[a.type] >= a.target
             /\ a.progress = IF have[a.type] <= a.target THEN have[a.type] ELSE a.target
             /\ a.progress <= a.target
             /\ (a.progress = a.target) <=> a.unlocked

\* ten completed tasks: the 10-task milestone is unlocked at 10/10 and the
\* 50-task milestone locked at 10/50
C30_Witness ==
  /\ request.op = "get_achievements"
  /\ completed_count(request.user) = 10
  /\ \E i, j \in DOMAIN response :
       /\ response[i].type = "task" /\ response[i].target = 10
       /\ response[i].unlocked /\ response[i].progress = 10
       /\ response[j].type = "task" /\ response[j].target = 50
       /\ ~response[j].unlocked /\ response[j].progress = 10

\* the decision table of the mood insight: an energy range, moods, the message
DecisionTable ==
  {[lo |-> 8, hi |-> 10, moods |-> {"happy", "motivated", "calm"}, insight |-> "peak condition"],
   [lo |-> 8, hi |-> 10, moods |-> {"stressed", "tired", "frustrated", "neutral"},
    insight |-> "good energy despite stress"],
   [lo |-> 5, hi |-> 7, moods |-> {"happy", "calm", "motivated"}, insight |-> "steady work"],
   [lo |-> 5, hi |-> 7, moods |-> {"stressed"}, insight |-> "break into smaller steps"],
   [lo |-> 5, hi |-> 7, moods |-> {"tired", "frustrated", "neutral"}, insight |-> "average energy"],
   [lo |-> 1, hi |-> 4, moods |-> {"tired", "stressed", "frustrated"}, insight |-> "rest is productive"],
   [lo |-> 1, hi |-> 4, moods |-> {"happy", "calm", "motivated", "neutral"}, insight |-> "low energy"]}

\* C31: the mood insight is a total function of mood and energy over the
\* seven moods and the energy levels 1..10 that follows the decision table,
\* every pair falling in exactly one row of it: energy 8 or more with happy,
\* motivated or calm gives "peak condition", energy 5..7 with stressed gives
\* "break into smaller steps", energy below 5 with tired, stressed or
\* frustrated gives "rest is productive"
C31_InsightFollowsTable ==
  (request.op = "get_mood_insight" /\ request.mood \in Moods /\ request.energy \in EnergyLevels) =>
    \E rows \in {{r \in DecisionTable : request.energy \in r.lo..r.hi /\ request.mood \in r.moods}} :
      /\ Cardinality(rows) = 1
      /\ \A r \in rows : response = <<r.insight>>
      /\ (request.energy >= 8 /\ request.mood \in {"happy", "motivated", "calm"})
           => response = <<"peak condition">>
      /\ (request.energy \in 5..7 /\ request.mood = "stressed")
           => response = <<"break into smaller steps">>
      /\ (request.energy < 5 /\ request.mood \in {"tired", "stressed", "frustrated"})
           => response = <<"rest is productive">>

\* the insight was asked for a calm mood at energy 8, the lowest level of the top rows
C31_Witness ==
  /\ request.op = "get_mood_insight"
  /\ request.mood = "calm" /\ request.energy = 8
  /\ response = <<"peak condition">>

\* C36: every persisted mood log has a mood that is one of the seven labels
\* and an energy level that is an integer in 1..10, whatever buttons were
\* pressed on the way
C36_MoodLogsWellFormed ==
  \A u \in Users : \A i \in DOMAIN mood_logs[u] :
    /\ mood_logs[u][i].mood \in Moods
    /\ mood_logs[u][i].energy_level \in EnergyLevels

\* a reminder that is marked sent stays in the table, marked sent
StaysSent(id) == id \in DOMAIN reminders' /\ reminders'[id].sent

\* in a step that runs the due-and-unsent query, it returns only reminders
\* not sent and due
ReturnsDueUnsent ==
  DbGetPendingReminders =>
    \A id \in response' :
      /\ id \in DOMAIN reminders'
      /\ ~reminders'[id].sent
      /\ reminders'[id].reminder_time <= now'

\* C32: a reminder is returned by the due-and-unsent query only while its
\* sent flag is false and its reminder time is at or before now; once marked
\* sent its flag never returns to false, it is never returned by that query
\* again, and it is never deleted
C32_SentRemindersStay ==
  [][/\ ReturnsDueUnsent
     /\ \A id \in DOMAIN reminders : reminders[id].sent => StaysSent(id)]_vars

\* C32 as amended: ... and it is deleted only together with the task it is
\* tied to, in the step that deletes that task
C32_SentRemindersStayWithTask ==
  [][/\ ReturnsDueUnsent
     /\ \A id \in DOMAIN reminders :
          reminders[id].sent =>
            \/ StaysSent(id)
            \/ /\ id \notin DOMAIN reminders'
               /\ reminders[id].task_id \in DOMAIN tasks
               /\ reminders[id].task_id \notin DOMAIN tasks']_vars

\* the query has just run while a reminder that is due is marked sent
C32_Witness ==
  /\ request.op = "get_pending_reminders"
  /\ \E id \in DOMAIN reminders :
       /\ reminders[id].sent
       /\ reminders[id].reminder_time <= now
       /\ id \notin response

\* C33: in the reminder poller nothing can run between the test of an event id against
\* the sent-set and the insertion of the id, so two overlapping cycles that both
\* fetched the same upcoming event do not both send a notification for it: no id is
\* notified twice while it has not been cleared from the set.
C33_OverlappingCyclesSendOnce ==
  \A id \in EventIds : notified[id] <= 1

\* handlers h and g are both under way for the same task of the same user
Concurrent(h, g) ==
  /\ h # g
  /\ complete_pc[h].pc = "reply"
  /\ complete_pc[g].pc = "reply"
  /\ complete_pc[h].user = complete_pc[g].user
  /\ complete_pc[h].id = complete_pc[g].id

TaskKeys == {"task_title", "task_category", "task_deadline", "waiting_custom_deadline"}
MoodKeys == {"mood", "energy"}

\* the part of a user_data dict that belongs to one conversation
Held(d, keys) == [k \in keys \cap DOMAIN d |-> d[k]]

\* C35: the conversations of a user do not disturb each other through context.user_data:
\* a step that finishes or cancels one conversation (task creation, mood logging,
\* brainstorm) leaves the data held by every other conversation of that user that is
\* still under way as it was, so that conversation's next step finds what it stored.
C35_ConversationsKeepTheirData ==
  [][\A u \in Users :
       LET taskEnds == conv[u] # END /\ conv'[u] = END
           moodEnds == mood_conv[u] # END /\ mood_conv'[u] = END
           brainEnds == brain_conv[u] # END /\ brain_conv'[u] = END
       IN
       /\ (moodEnds \/ brainEnds) /\ conv[u] # END /\ conv'[u] # END =>
            Held(user_data'[u], TaskKeys) = Held(user_data[u], TaskKeys)
       /\ (taskEnds \/ brainEnds) /\ mood_conv[u] # END /\ mood_conv'[u] # END =>
            Held(user_data'[u], MoodKeys) = Held(user_data[u], MoodKeys)
       /\ (taskEnds \/ moodEnds) /\ brain_conv[u] # END /\ brain_conv'[u] # END =>
            Held(user_data'[u], BrainstormKeys) = Held(user_data[u], BrainstormKeys)]_vars

\* C37: pressing the delete button shown for a calendar event in /list deletes exactly
\* that event: the id given to the provider's delete operation is the full id of the
\* event the button was rendered for, whatever id the provider returned for it, and
\* no other event leaves the calendar.
C37_DeleteButtonDeletesItsEvent ==
  [][delete_event_handler =>
       \A i \in DOMAIN list_buttons :
         list_buttons[i].callback_data = b_last'.text =>
           /\ b_last'.answers[1] = list_buttons[i].event
           /\ \A j \in DOMAIN gcal :
                gcal[j].id # list_buttons[i].event => \E k \in DOMAIN gcal' : gcal'[k] = gcal[j]]_vars

\* C38: in the idea-selection step of the brainstorm every integer from 1 to 5 is
\* accepted: the idea presented under that number becomes the selected idea and the
\* conversation moves to IDEA_ACTION; every other input is answered with the request
\* for a number and the conversation stays in IDEA_SELECTION; no accepted selection
\* fails or selects an idea that was not presented.
C38_EveryNumberSelectsItsIdea ==
  [][idea_selected =>
       LET u == lastUpdate'.user
           selection == Selection(lastUpdate'.text[1])
           presented == user_data_get(u, "brainstorm_ideas", <<>>)
       IN
       IF selection \in 1..IdeaCount
         THEN /\ brain_conv'[u] = IDEA_ACTION
              /\ selection \in DOMAIN presented
              /\ DictHas(user_data'[u], "selected_idea")
              /\ user_data'[u]["selected_idea"] = presented[selection]
         ELSE /\ reply' = Report(u, "send_a_number", 0)
              /\ brain_conv'[u] = IDEA_SELECTION]_vars

\* the pending tasks of the user that have a deadline and no calendar event
Waiting(u) == {id \in Unsynced(u) : tasks[id].deadline # NoDeadline}

\* C39: with the calendar connected and the calendar calls succeeding, repeating /sync
\* eventually leaves no pending task with a deadline without an event id: no such task
\* is passed over for ever, however many pending tasks the user has.  What a /sync
\* does depends on the stored tasks and the connection only, so the claim holds
\* exactly when every such /sync that finds tasks waiting takes at least one of
\* them off the waiting set: a /sync that takes none leaves the store as it was, and
\* every later one repeats it.
C39_SyncReachesEveryTask ==
  [][\A u \in Users :
       (SyncSucceeds /\ reply'.user = u /\ Waiting(u) # {}) =>
         /\ Waiting(u)' \subseteq Waiting(u)
         /\ Waiting(u)' # Waiting(u)]_vars

====
